---- MODULE Spec2Model ----
(***************************************************************************)
(* Retrieval-and-streaming orchestration of the chatbot backend:           *)
(*   - the chat turn on the request/response, SSE and WebSocket endpoints  *)
(*     (app/chatbot/views.py, app/chatbot/streaming_utils.py,              *)
(*      app/chatbot/utils.py, app/chatbot/agents.py, app/llm.py),          *)
(*   - the document SSE endpoints (multimodal_chatbot, tabular_rag) and    *)
(*     the structured WebSocket RAG handler,                               *)
(*   - the text chunkers (chatbot/jsonl_handler.py, chatbot/rag.py),       *)
(*   - ingestion: the JSONL upload, the batch processors, the metadata     *)
(*     and preview of a chunk, get_vector_store and the embedding of the   *)
(*     chunks of a document,                                               *)
(*   - the SSE endpoint of unstructured_chatbot.                           *)
(* Texts are sequences of characters; a turn's frames are recorded in the  *)
(* order the handler writes them.                                          *)
(***************************************************************************)
EXTENDS Integers, Sequences, FiniteSets, TLC

VARIABLES
    ep,          \* endpoint that serves the connection
    pc,          \* position of the handler
    query,       \* kind of the query of the current turn
    intent,      \* intent of the current turn ("none" before classification)
    resp,        \* response text of stream_ai_response / ai_response
    respNull,    \* the response is None
    pos,         \* loop index i of stream_text_response
    gen,         \* chunks the stream generator has still to yield
    full,        \* full_response accumulator of event_stream
    todo,        \* frames the straight-line tail of event_stream has still to yield
    sent,        \* frames delivered to the client in the current turn
    connected,   \* the transport is connected
    observed,    \* a read or write of the handler has failed on the disconnect
    lateWrites,  \* writes attempted after the handler observed the disconnect
    turns,       \* turns started on the connection
    exc,         \* the exception the current turn raised ("none" if none)
    genFailed,   \* the text-generation call of the turn failed
    retr,        \* outcome of the turn's retrieval ("none" before it)
    calls,       \* capabilities called in the current turn
    text,        \* chunker: input text
    maxBytes,    \* chunker: max_chunk_size / chunk_size
    chunks,      \* chunker: returned list
    handed,      \* chunker: chunks upsert_texts hands to the embedding gateway
    cop,         \* chunker: operation applied ("none" before)
    env,         \* library call: its arguments and what its collaborators do
    op,          \* library call: the function called ("none" before)
    out          \* library call: what it returned and what it did

turnVars == <<ep, pc, query, intent, resp, respNull, pos, gen, full, todo, sent,
              connected, observed, lateWrites, turns, exc, genFailed, retr, calls>>
chunkVars == <<text, maxBytes, chunks, handed, cop>>
libVars == <<env, op, out>>
vars == <<ep, pc, query, intent, resp, respNull, pos, gen, full, todo, sent,
          connected, observed, lateWrites, turns, exc, genFailed, retr, calls,
          text, maxBytes, chunks, handed, cop, env, op, out>>

(***************************************************************************)
(* Bounds of the model.                                                    *)
(***************************************************************************)
MaxTurns == 2        \* turns on one WebSocket connection
MaxGenLen == 101     \* longest generated answer, in characters
MaxStreamChunks == 2 \* chunks a generation stream yields before it ends or fails
MaxLen == 5          \* chunker: longest input text, in tokens
MaxBytes == 3        \* chunker: largest max_bytes
MaxClock == 2        \* ingestion: last second of the clock
MaxItems == 2        \* ingestion: most chunks or objects of a document
MaxLines == 4        \* JSONL upload: most lines of a file

(***************************************************************************)
(* Program constants.                                                      *)
(***************************************************************************)
chunk_size == 50     \* stream_text_response(chunk_size=50)
RefundLen == 194     \* length of the fixed refund answer
AdBookingLen == 119  \* length of the fixed ad-booking answer
NoInfoLen == 61      \* length of "I couldn't find relevant information ..."

Min(a, b) == IF a < b THEN a ELSE b

RECURSIVE Concat(_)
Concat(ss) == IF ss = <<>> THEN <<>> ELSE Head(ss) \o Concat(Tail(ss))

(***************************************************************************)
(* Texts. A character is a number; the characters of a generation-failure  *)
(* text ("Error while generating response: ...") are ErrChar, those of the *)
(* no-information sentence NoInfoChar, so that a payload tells its origin. *)
(***************************************************************************)
ErrChar == 0 - 1
NoInfoChar == 0 - 2
RefundChar == 0 - 3
AdBookingChar == 0 - 4
RPChar == 0 - 5

RefundText == [i \in 1..RefundLen |-> RefundChar]
AdBookingText == [i \in 1..AdBookingLen |-> AdBookingChar]
NoInfoText == [i \in 1..NoInfoLen |-> NoInfoChar]
RPText == <<RPChar, RPChar>>
ErrText == <<ErrChar, ErrChar, ErrChar>>

GenLens == {1, chunk_size, chunk_size + 1, MaxGenLen}
GenTexts == {[i \in 1..n |-> i] : n \in GenLens}

Intents == {"refund", "rp", "ad_booking", "customer", "agency", "other"}
Literals == {"rajasthan patrika", "refund policies", "ad booking"}
\* "AD BOOKING": a literal query in another letter case; "free": any other
\* non-blank query; "blank": whitespace only; "empty": "".
QueryKinds == Literals \cup {"AD BOOKING", "free", "blank", "empty"}
\* A comparison that does not fold the letter case.
lowerKeepsCase(q) == q
\* query.lower()
lower(q) == IF q = "AD BOOKING" THEN "ad booking" ELSE q
\* A WebSocket client frame is a query or a text that json.loads/.get rejects.
FrameKinds == QueryKinds \cup {"malformed"}

(***************************************************************************)
(* Support menus of the three dispatch implementations.                    *)
(***************************************************************************)
LabelMore == "would you like to know more about?"
LabelAdBooking == "For ad booking, please specify the category you are interested in:"
LabelCustomer == "Would you like to know the ad booking flow for any other category like Agency, or want to know about Rajasthan Patrika or refund policy?"
LabelAgency == "Would you like to know the ad booking flow for any other category like Customer, or want to know about Rajasthan Patrika or refund policy?"
LabelOther == "Would you like to know the ad booking flow for any other category like Customer, Agency, or want to know about Rajasthan Patrika or refund policy?"
LabelDocs == "Would you like to know more about?"

Menu(l, o) == [label |-> l, options |-> o]
NoMenu == Menu("", <<>>)
MenuRP == Menu(LabelMore, <<"Rajasthan Patrika", "Refund Policies", "Ad Booking">>)
MenuAdBooking == Menu(LabelAdBooking, <<"Customer", "Agency">>)
MenuCustomer == Menu(LabelCustomer, <<"Agency", "Rajasthan Patrika", "Refund Policy">>)
MenuAgency == Menu(LabelAgency, <<"Customer", "Rajasthan Patrika", "Refund Policy">>)
MenuOther == Menu(LabelOther, <<"Customer", "Agency", "Rajasthan Patrika", "Refund Policy">>)
MenuMultimodal == Menu(LabelDocs, <<"Text Content", "Image Content", "Upload Another PDF", "Search Other Documents">>)

\* Chatbot.ai_response: the message of each branch.
AiResponseMenu(i) ==
    CASE i = "refund" -> MenuRP
      [] i = "rp" -> MenuRP
      [] i = "ad_booking" -> MenuAdBooking
      [] i = "customer" -> MenuCustomer
      [] i = "agency" -> MenuAgency
      [] i = "other" -> MenuOther
      [] OTHER -> MenuOther

\* A dispatcher that gives the agency intent the customer menu.
StreamAiResponseMenuMixed(i) ==
    IF i = "agency" THEN MenuCustomer ELSE AiResponseMenu(i)
\* StreamingChatbot.stream_ai_response: the message of each branch.
StreamAiResponseMenu(i) ==
    CASE i = "refund" -> MenuRP
      [] i = "rp" -> MenuRP
      [] i = "ad_booking" -> MenuAdBooking
      [] i = "customer" -> MenuCustomer
      [] i = "agency" -> MenuAgency
      [] i = "other" -> MenuOther
      [] OTHER -> MenuOther

\* chat_stream.event_stream: support_message of each branch.
EventStreamMenu(i) ==
    CASE i = "refund" -> MenuRP
      [] i = "rp" -> MenuRP
      [] i = "ad_booking" -> MenuAdBooking
      [] i = "customer" -> MenuCustomer
      [] i = "agency" -> MenuAgency
      [] OTHER -> MenuOther

\* The short-circuit answers for the three literal queries.
LiteralText(q) ==
    CASE q = "rajasthan patrika" -> RPText
      [] q = "refund policies" -> RefundText
      [] q = "ad booking" -> AdBookingText

LiteralMenu(q) ==
    CASE q = "rajasthan patrika" -> MenuRP
      [] q = "refund policies" -> MenuRP
      [] q = "ad booking" -> MenuAdBooking

(***************************************************************************)
(* Frames. kind: "chunk" (SSE {chunk}, WebSocket type "stream"),           *)
(* "final" (SSE {message, supportMessage}, WebSocket type "complete", the  *)
(* body of a 200 response), "error" (SSE {error}, WebSocket type "error",  *)
(* an HTTP 500), "done" (the SSE done marker).                             *)
(***************************************************************************)
Frame(k, t, n, l, m) == [kind |-> k, text |-> t, null |-> n, last |-> l, menu |-> m]
ChunkFrame(t, l) == Frame("chunk", t, FALSE, l, NoMenu)
FinalFrame(t, n, m) == Frame("final", t, n, FALSE, m)
ErrorFrame == Frame("error", <<>>, FALSE, FALSE, NoMenu)
DoneFrame == Frame("done", <<>>, FALSE, FALSE, NoMenu)

(***************************************************************************)
(* Classification.                                                         *)
(***************************************************************************)
\* What get_google_response can return to get_intent, by shape:
\*   "json"     {"intent": v}
\*   "fenced"   the same inside ```json fences
\*   "embedded" prose around {"intent": v}
\*   "nokey"    a JSON object without "intent"
\*   "nondict"  valid JSON that is no object
\*   "garbage"  no JSON at all ("No response generated." included)
\*   "failure"  "Error while generating response: ..."
ReplyShapes == {"json", "fenced", "embedded", "nokey", "nondict", "garbage", "failure"}
ReplyIntents == Intents \cup {"bogus"}
Replies == [shape : ReplyShapes, intent : ReplyIntents]

\* extract_json_from_string: the parsed value, as (is a dict, has "intent", intent).
Parsed(d, h, i) == [isDict |-> d, hasIntent |-> h, intent |-> i]
extract_json_from_string(r) ==
    CASE r.shape \in {"json", "fenced"} -> Parsed(TRUE, TRUE, r.intent)
      [] r.shape = "nokey" -> Parsed(TRUE, FALSE, "other")
      [] r.shape = "nondict" -> Parsed(FALSE, FALSE, "other")
      [] r.shape = "embedded" -> Parsed(TRUE, TRUE, r.intent)
      [] OTHER -> Parsed(TRUE, TRUE, "other")

\* get_intent: .get on a non-dict raises and the outer except returns "other".
get_intent(r) ==
    LET p == extract_json_from_string(r)
        i == IF p.hasIntent THEN p.intent ELSE "other"
    IN IF ~p.isDict THEN "other"
       ELSE IF i \notin Intents THEN "other" ELSE i

\* Chatbot.intent_classification: the classes table.
classes == [n \in 0..5 |->
    CASE n = 0 -> "ad_booking" [] n = 1 -> "agency" [] n = 2 -> "customer"
      [] n = 3 -> "other" [] n = 4 -> "rp" [] n = 5 -> "refund"]

\* Chatbot.load_assets logs and re-raises when joblib.load fails.
LoadOutcomes == {"loaded", "load_error"}

(***************************************************************************)
(* Retrieval and generation outcomes.                                      *)
(***************************************************************************)
\* store.query_by_text: raises (embedding or index failure), no match,
\* matches without a text field, matches with text.
RetrievalOutcomes == {"raise", "empty", "notext", "hits"}
Usable(r) == r = "hits"

\* get_google_response: the answer, or the failure text on any exception.
GenOutcomes == GenTexts \cup {ErrText}

\* get_google_response_stream: chunks, then the failure text if the call fails.
RECURSIVE SeqsUpTo(_, _)
SeqsUpTo(S, n) ==
    IF n = 0 THEN {<<>>}
    ELSE LET R == SeqsUpTo(S, n - 1)
         IN R \cup {Append(s, x) : s \in {r \in R : Len(r) = n - 1}, x \in S}
StreamChunks == {<<1>>, <<2, 3>>}
StreamOutcomes ==
    LET ok == SeqsUpTo(StreamChunks, MaxStreamChunks)
    IN ok \cup {Append(s, ErrText) : s \in ok}
StreamFailed(s) == s # <<>> /\ s[Len(s)] = ErrText

\* A slice that loses its last character.
SliceShort(t, i) == SubSeq(t, i + 1, Min(i + chunk_size, Len(t)) - 1)
\* stream_text_response: chunk = text[i:i + chunk_size]
Slice(t, i) == SubSeq(t, i + 1, Min(i + chunk_size, Len(t)))

\* A flag that is set only when the slice reaches past the end of the text.
is_finalPastEnd(t, i) == i + chunk_size > Len(t)
\* stream_text_response: "is_final": i + chunk_size >= len(text)
is_final(t, i) == i + chunk_size >= Len(t)
(***************************************************************************)
(* The turn machine.                                                       *)
(***************************************************************************)
Endpoints == {"post", "sse", "ws", "mm_sse", "tab_sse", "struct_ws"}
SocketEndpoints == {"ws", "struct_ws"}
SseEndpoints == {"sse", "mm_sse", "tab_sse"}

ChunkIdle ==
    /\ text = <<>> /\ maxBytes = 1 /\ chunks = <<>> /\ handed = <<>> /\ cop = "none"

LibIdle == env = <<>> /\ op = "none" /\ out = <<>>

Init ==
    /\ ep \in Endpoints
    /\ pc = IF ep = "ws" THEN "recv" ELSE "start"
    /\ query = "none" /\ intent = "none"
    /\ resp = <<>> /\ respNull = FALSE /\ pos = 0
    /\ gen = <<>> /\ full = <<>> /\ todo = <<>> /\ sent = <<>>
    /\ connected = TRUE /\ observed = FALSE /\ lateWrites = 0
    /\ turns = 0 /\ exc = "none" /\ genFailed = FALSE
    /\ retr = "none" /\ calls = {}
    /\ ChunkIdle
    /\ LibIdle

\* websocket.send_text: the frame reaches the client if the transport is
\* connected; otherwise the call raises WebSocketDisconnect.
Write(f) ==
    /\ sent' = IF connected THEN Append(sent, f) ELSE sent
    /\ observed' = (observed \/ ~connected)
    /\ lateWrites' = IF observed THEN lateWrites + 1 ELSE lateWrites

NoWrite == UNCHANGED <<sent, observed, lateWrites>>

\* The client closes the socket while the handler runs.
ClientDisconnect ==
    /\ ep \in SocketEndpoints
    /\ connected
    /\ pc # "closed"
    /\ connected' = FALSE
    /\ UNCHANGED <<ep, pc, query, intent, resp, respNull, pos, gen, full, todo, sent,
                   observed, lateWrites, turns, exc, genFailed, retr, calls>>
    /\ UNCHANGED <<chunkVars, libVars>>

(***************************************************************************)
(* WebSocket /chat/ws: websocket_chat.                                     *)
(***************************************************************************)
\* receive_text, json.loads, message_data.get("query", ""), the dispatch on
\* the query up to the first await.
WsReceive(k) ==
    /\ ep = "ws" /\ pc = "recv"
    /\ connected
    /\ turns < MaxTurns
    /\ turns' = turns + 1
    /\ query' = k
    /\ intent' = "none" /\ resp' = <<>> /\ respNull' = FALSE /\ pos' = 0
    /\ sent' = <<>> /\ genFailed' = FALSE /\ retr' = "none" /\ calls' = {}
    /\ exc' = IF k = "malformed" THEN "json" ELSE "none"
    /\ pc' = CASE k = "malformed" -> "ws_except"
              [] k = "empty" -> "noquery"
              [] lower(k) \in Literals -> "literal"
              [] OTHER -> "classify"
    /\ UNCHANGED <<ep, gen, full, todo, connected, observed, lateWrites>>
    /\ UNCHANGED <<chunkVars, libVars>>

\* receive_text on a closed socket raises WebSocketDisconnect, which the
\* handler catches and returns.
WsReceiveDisconnected ==
    /\ ep = "ws" /\ pc = "recv"
    /\ ~connected
    /\ observed' = TRUE
    /\ pc' = "closed"
    /\ UNCHANGED <<ep, query, intent, resp, respNull, pos, gen, full, todo, sent,
                   connected, lateWrites, turns, exc, genFailed, retr, calls>>
    /\ UNCHANGED <<chunkVars, libVars>>

\* if not query: send {"type": "error", "message": "No query provided"}; continue
WsSendNoQuery ==
    /\ ep = "ws" /\ pc = "noquery"
    /\ Write(ErrorFrame)
    /\ pc' = IF connected THEN "recv" ELSE "closed"
    /\ UNCHANGED <<ep, query, intent, resp, respNull, pos, gen, full, todo,
                   connected, turns, exc, genFailed, retr, calls>>
    /\ UNCHANGED <<chunkVars, libVars>>

\* The three literal queries: send {"type": "complete", data}; continue
WsSendLiteral ==
    /\ ep = "ws" /\ pc = "literal"
    /\ Write(FinalFrame(LiteralText(lower(query)), FALSE, LiteralMenu(lower(query))))
    /\ pc' = IF connected THEN "recv" ELSE "closed"
    /\ UNCHANGED <<ep, query, intent, resp, respNull, pos, gen, full, todo,
                   connected, turns, exc, genFailed, retr, calls>>
    /\ UNCHANGED <<chunkVars, libVars>>

\* intent = await Chatbot.intent_classification(query)
WsClassify(load, pred) ==
    /\ ep = "ws" /\ pc = "classify"
    /\ calls' = calls \cup {"classify"}
    /\ IF load = "load_error"
       THEN /\ exc' = "classify" /\ pc' = "ws_except" /\ UNCHANGED intent
       ELSE /\ intent' = classes[pred] /\ pc' = "respond" /\ UNCHANGED exc
    /\ NoWrite
    /\ UNCHANGED <<ep, query, resp, respNull, pos, gen, full, todo,
                   connected, turns, genFailed, retr>>
    /\ UNCHANGED <<chunkVars, libVars>>

\* stream_ai_response, intent refund / ad_booking: the fixed answer.
WsRespondFixed ==
    /\ ep = "ws" /\ pc = "respond"
    /\ intent \in {"refund", "ad_booking"}
    /\ resp' = IF intent = "refund" THEN RefundText ELSE AdBookingText
    /\ pc' = "stream"
    /\ NoWrite
    /\ UNCHANGED <<ep, query, intent, respNull, pos, gen, full, todo,
                   connected, turns, exc, genFailed, retr, calls>>
    /\ UNCHANGED <<chunkVars, libVars>>

\* stream_ai_response, intent rp: stream_rag_response.
WsRespondRag(r, g) ==
    /\ ep = "ws" /\ pc = "respond"
    /\ intent = "rp"
    /\ retr' = r
    /\ calls' = calls \cup {"retrieve"} \cup (IF Usable(r) THEN {"generate"} ELSE {})
    /\ CASE r = "raise" ->
              /\ exc' = "retrieval" /\ pc' = "rag_except"
              /\ UNCHANGED <<resp, genFailed>>
         [] Usable(r) ->
              /\ resp' = g /\ genFailed' = (g = ErrText) /\ pc' = "stream"
              /\ UNCHANGED exc
         [] OTHER ->
              /\ resp' = NoInfoText /\ pc' = "stream"
              /\ UNCHANGED <<exc, genFailed>>
    /\ NoWrite
    /\ UNCHANGED <<ep, query, intent, respNull, pos, gen, full, todo,
                   connected, turns>>
    /\ UNCHANGED <<chunkVars, libVars>>

\* stream_ai_response, intent customer / agency / other: the agent's answer.
WsRespondAgent(g) ==
    /\ ep = "ws" /\ pc = "respond"
    /\ intent \in {"customer", "agency", "other"}
    /\ calls' = calls \cup {"generate"}
    /\ resp' = g /\ genFailed' = (g = ErrText)
    /\ pc' = "stream"
    /\ NoWrite
    /\ UNCHANGED <<ep, query, intent, respNull, pos, gen, full, todo,
                   connected, turns, exc, retr>>
    /\ UNCHANGED <<chunkVars, libVars>>

\* stream_rag_response, except Exception: send the error envelope, then raise.
\* A WebSocketDisconnect of the send reaches websocket_chat's own handler.
WsRagExcept ==
    /\ ep = "ws" /\ pc = "rag_except"
    /\ Write(ErrorFrame)
    /\ pc' = IF connected THEN "ws_except" ELSE "closed"
    /\ UNCHANGED <<ep, query, intent, resp, respNull, pos, gen, full, todo,
                   connected, turns, exc, genFailed, retr, calls>>
    /\ UNCHANGED <<chunkVars, libVars>>

\* stream_text_response: one iteration of the loop.
WsStream ==
    /\ ep = "ws" /\ pc = "stream"
    /\ pos < Len(resp)
    /\ Write(ChunkFrame(Slice(resp, pos), is_final(resp, pos)))
    /\ pos' = pos + chunk_size
    /\ pc' = IF connected THEN "stream" ELSE "closed"
    /\ UNCHANGED <<ep, query, intent, resp, respNull, gen, full, todo,
                   connected, turns, exc, genFailed, retr, calls>>
    /\ UNCHANGED <<chunkVars, libVars>>

\* A turn that goes back to receive_text without its complete frame.
WsCompleteNoFrame ==
    /\ ep = "ws" /\ pc = "stream"
    /\ pos >= Len(resp)
    /\ NoWrite
    /\ pc' = "recv"
    /\ UNCHANGED <<ep, query, intent, resp, respNull, pos, gen, full, todo,
                   connected, turns, exc, genFailed, retr, calls>>
    /\ UNCHANGED <<chunkVars, libVars>>

\* send {"type": "complete", "data": {message, supportMessage}}
WsComplete ==
    /\ ep = "ws" /\ pc = "stream"
    /\ pos >= Len(resp)
    /\ Write(FinalFrame(resp, FALSE, StreamAiResponseMenu(intent)))
    /\ pc' = IF connected THEN "recv" ELSE "closed"
    /\ UNCHANGED <<ep, query, intent, resp, respNull, pos, gen, full, todo,
                   connected, turns, exc, genFailed, retr, calls>>
    /\ UNCHANGED <<chunkVars, libVars>>

\* except Exception: send {"type": "error"}; the handler returns.
WsExcept ==
    /\ ep = "ws" /\ pc = "ws_except"
    /\ Write(ErrorFrame)
    /\ pc' = "closed"
    /\ UNCHANGED <<ep, query, intent, resp, respNull, pos, gen, full, todo,
                   connected, turns, exc, genFailed, retr, calls>>
    /\ UNCHANGED <<chunkVars, libVars>>

WsNext ==
    \/ \E k \in FrameKinds : WsReceive(k)
    \/ WsReceiveDisconnected
    \/ WsSendNoQuery
    \/ WsSendLiteral
    \/ \E load \in LoadOutcomes, pred \in DOMAIN classes : WsClassify(load, pred)
    \/ WsRespondFixed
    \/ \E r \in RetrievalOutcomes, g \in GenOutcomes : WsRespondRag(r, g)
    \/ \E g \in GenOutcomes : WsRespondAgent(g)
    \/ WsRagExcept
    \/ WsStream
    \/ WsComplete
    \/ WsExcept

(***************************************************************************)
(* structured_multimodal_chatbot StreamingChatbot.stream_rag_response.     *)
(* get_google_response_stream is a plain generator, so the async for over  *)
(* it raises TypeError before the first chunk: the loop body and the       *)
(* complete envelope after it are never reached.                           *)
(***************************************************************************)
\* get_vector_store(); query_vector_store(query, top_k); the context loop.
StructQuery(r) ==
    /\ ep = "struct_ws" /\ pc = "start"
    /\ turns' = turns + 1
    /\ query' = "free"
    /\ retr' = r
    /\ calls' = calls \cup {"retrieve"}
    /\ exc' = IF r = "raise" THEN "retrieval" ELSE "none"
    /\ pc' = CASE r = "raise" -> "s_except"
              [] Usable(r) -> "s_generate"
              [] OTHER -> "s_noinfo"
    /\ NoWrite
    /\ UNCHANGED <<ep, intent, resp, respNull, pos, gen, full, todo,
                   connected, genFailed>>
    /\ UNCHANGED <<chunkVars, libVars>>

\* if not context_texts: send the error envelope; return. The send is inside
\* the try, so its WebSocketDisconnect is caught by except Exception.
StructSendNoInfo ==
    /\ ep = "struct_ws" /\ pc = "s_noinfo"
    /\ Write(ErrorFrame)
    /\ pc' = IF connected THEN "closed" ELSE "s_except"
    /\ exc' = IF connected THEN exc ELSE "disconnect"
    /\ UNCHANGED <<ep, query, intent, resp, respNull, pos, gen, full, todo,
                   connected, turns, genFailed, retr, calls>>
    /\ UNCHANGED <<chunkVars, libVars>>

\* async for chunk in get_google_response_stream(...): TypeError.
StructGenerate ==
    /\ ep = "struct_ws" /\ pc = "s_generate"
    /\ exc' = "type_error"
    /\ pc' = "s_except"
    /\ NoWrite
    /\ UNCHANGED <<ep, query, intent, resp, respNull, pos, gen, full, todo,
                   connected, turns, genFailed, retr, calls>>
    /\ UNCHANGED <<chunkVars, libVars>>

\* except Exception: send the error envelope; raise.
StructExcept ==
    /\ ep = "struct_ws" /\ pc = "s_except"
    /\ Write(ErrorFrame)
    /\ pc' = "closed"
    /\ UNCHANGED <<ep, query, intent, resp, respNull, pos, gen, full, todo,
                   connected, turns, exc, genFailed, retr, calls>>
    /\ UNCHANGED <<chunkVars, libVars>>

StructNext ==
    \/ \E r \in RetrievalOutcomes : StructQuery(r)
    \/ StructSendNoInfo
    \/ StructGenerate
    \/ StructExcept

(***************************************************************************)
(* Server-sent events. A yield delivers a frame; when the client goes away *)
(* the response task is cancelled and the generator is closed at its       *)
(* current yield (GeneratorExit / CancelledError pass except Exception).   *)
(***************************************************************************)
Yield(f) ==
    /\ sent' = Append(sent, f)
    /\ UNCHANGED <<observed, lateWrites>>

\* The straight-line tail of an event_stream: the next yield.
YieldTail(e) ==
    /\ ep = e /\ pc = "tail"
    /\ todo # <<>>
    /\ Yield(Head(todo))
    /\ todo' = Tail(todo)
    /\ pc' = IF Tail(todo) = <<>> THEN "closed" ELSE "tail"
    /\ UNCHANGED <<ep, query, intent, resp, respNull, pos, gen, full,
                   connected, turns, exc, genFailed, retr, calls>>
    /\ UNCHANGED <<chunkVars, libVars>>

\* for chunk in stream_generator: if chunk: full_response += chunk; yield
YieldChunk(e) ==
    /\ ep = e /\ pc = "loop"
    /\ gen # <<>>
    /\ IF Head(gen) # <<>>
       THEN /\ full' = full \o Head(gen)
            /\ Yield(ChunkFrame(Head(gen), FALSE))
       ELSE /\ UNCHANGED full
            /\ NoWrite
    /\ gen' = Tail(gen)
    /\ UNCHANGED <<ep, pc, query, intent, resp, respNull, pos, todo,
                   connected, turns, exc, genFailed, retr, calls>>
    /\ UNCHANGED <<chunkVars, libVars>>

\* The generator is exhausted: yield the final payload; the done marker is next.
YieldFinal(e, m) ==
    /\ ep = e /\ pc = "loop"
    /\ gen = <<>>
    /\ Yield(FinalFrame(full, FALSE, m))
    /\ todo' = <<DoneFrame>>
    /\ pc' = "tail"
    /\ UNCHANGED <<ep, query, intent, resp, respNull, pos, gen, full,
                   connected, turns, exc, genFailed, retr, calls>>
    /\ UNCHANGED <<chunkVars, libVars>>

\* The client disconnects: the generator is closed where it stands.
SseCancel ==
    /\ ep \in SseEndpoints
    /\ pc \notin {"closed", "cancelled"}
    /\ connected
    /\ connected' = FALSE
    /\ pc' = "cancelled"
    /\ UNCHANGED <<ep, query, intent, resp, respNull, pos, gen, full, todo, sent,
                   observed, lateWrites, turns, exc, genFailed, retr, calls>>
    /\ UNCHANGED <<chunkVars, libVars>>

\* The fixed refund / ad_booking answer of event_stream: chunk, final, done.
\* A predefined answer that is not followed by the done marker.
PredefinedFramesNoDone(t, m) == <<ChunkFrame(t, FALSE), FinalFrame(t, FALSE, m)>>
PredefinedFrames(t, m) == <<ChunkFrame(t, FALSE), FinalFrame(t, FALSE, m), DoneFrame>>

\* A short-circuit answer: the final payload without streaming, then done.
ShortCircuitFrames(q) == <<FinalFrame(LiteralText(q), FALSE, LiteralMenu(q)), DoneFrame>>

\* An error payload, then done.
ErrorFrames == <<ErrorFrame, DoneFrame>>

(***************************************************************************)
(* SSE /chat/stream: chat_stream.event_stream.                             *)
(***************************************************************************)
SseStart(k) ==
    /\ ep = "sse" /\ pc = "start"
    /\ turns' = turns + 1
    /\ query' = k
    /\ IF lower(k) \in Literals
       THEN /\ todo' = ShortCircuitFrames(lower(k)) /\ pc' = "tail"
       ELSE /\ UNCHANGED todo /\ pc' = "classify"
    /\ NoWrite
    /\ UNCHANGED <<ep, intent, resp, respNull, pos, gen, full,
                   connected, exc, genFailed, retr, calls>>
    /\ UNCHANGED <<chunkVars, libVars>>

\* intent = await get_intent(query)
SseClassify(r) ==
    /\ ep = "sse" /\ pc = "classify"
    /\ calls' = calls \cup {"classify"}
    /\ intent' = get_intent(r)
    /\ pc' = "dispatch"
    /\ NoWrite
    /\ UNCHANGED <<ep, query, resp, respNull, pos, gen, full, todo,
                   connected, turns, exc, genFailed, retr>>
    /\ UNCHANGED <<chunkVars, libVars>>

SseDispatchFixed ==
    /\ ep = "sse" /\ pc = "dispatch"
    /\ intent \in {"refund", "ad_booking"}
    /\ todo' = PredefinedFrames(IF intent = "refund" THEN RefundText ELSE AdBookingText,
                                EventStreamMenu(intent))
    /\ pc' = "tail"
    /\ NoWrite
    /\ UNCHANGED <<ep, query, intent, resp, respNull, pos, gen, full,
                   connected, turns, exc, genFailed, retr, calls>>
    /\ UNCHANGED <<chunkVars, libVars>>

\* intent rp: the retrieval inside its own try; rag_agent_stream with context,
\* other_agent_stream without context or when the retrieval raised.
SseDispatchRag(r, s) ==
    /\ ep = "sse" /\ pc = "dispatch"
    /\ intent = "rp"
    /\ retr' = r
    /\ calls' = calls \cup {"retrieve", "generate"}
    /\ gen' = s
    /\ genFailed' = StreamFailed(s)
    /\ pc' = "loop"
    /\ NoWrite
    /\ UNCHANGED <<ep, query, intent, resp, respNull, pos, full, todo,
                   connected, turns, exc>>
    /\ UNCHANGED <<chunkVars, libVars>>

SseDispatchAgent(s) ==
    /\ ep = "sse" /\ pc = "dispatch"
    /\ intent \in {"customer", "agency", "other"}
    /\ calls' = calls \cup {"generate"}
    /\ gen' = s
    /\ genFailed' = StreamFailed(s)
    /\ pc' = "loop"
    /\ NoWrite
    /\ UNCHANGED <<ep, query, intent, resp, respNull, pos, full, todo,
                   connected, turns, exc, retr>>
    /\ UNCHANGED <<chunkVars, libVars>>

SseLoop == YieldChunk("sse")
SseFinal == YieldFinal("sse", EventStreamMenu(intent))
SseTail == YieldTail("sse")

SseNext ==
    \/ \E k \in QueryKinds : SseStart(k)
    \/ \E r \in Replies : SseClassify(r)
    \/ SseDispatchFixed
    \/ \E r \in RetrievalOutcomes, s \in StreamOutcomes : SseDispatchRag(r, s)
    \/ \E s \in StreamOutcomes : SseDispatchAgent(s)
    \/ SseLoop
    \/ SseFinal
    \/ SseTail

(***************************************************************************)
(* SSE /multimodal_chat/stream: multimodal_stream.event_stream.            *)
(***************************************************************************)
\* multimodal_chatbot.rag.query_vector_store: any exception, an empty
\* embedding included, becomes {"matches": []}.
query_vector_store(r) == IF r = "raise" THEN "empty" ELSE r

MmQuery(r, s) ==
    /\ ep = "mm_sse" /\ pc = "start"
    /\ turns' = turns + 1
    /\ query' = "free"
    /\ retr' = r
    /\ IF Usable(query_vector_store(r))
       THEN /\ gen' = s /\ genFailed' = StreamFailed(s) /\ pc' = "loop"
            /\ calls' = calls \cup {"retrieve", "generate"}
            /\ UNCHANGED todo
       ELSE /\ todo' = ErrorFrames /\ pc' = "tail"
            /\ calls' = calls \cup {"retrieve"}
            /\ UNCHANGED <<gen, genFailed>>
    /\ NoWrite
    /\ UNCHANGED <<ep, intent, resp, respNull, pos, full, connected, exc>>
    /\ UNCHANGED <<chunkVars, libVars>>

MmLoop == YieldChunk("mm_sse")
MmFinal == YieldFinal("mm_sse", MenuMultimodal)
MmTail == YieldTail("mm_sse")

MmNext ==
    \/ \E r \in RetrievalOutcomes, s \in StreamOutcomes : MmQuery(r, s)
    \/ MmLoop
    \/ MmFinal
    \/ MmTail

(***************************************************************************)
(* SSE /tabular_rag/query: query_tabular.event_stream.                     *)
(***************************************************************************)
\* method rag: tabular_rag.rag.query_vector_store lets the index error out.
TabRag(r) ==
    /\ ep = "tab_sse" /\ pc = "start"
    /\ turns' = turns + 1
    /\ query' = "free"
    /\ retr' = r
    /\ calls' = calls \cup {"retrieve"}
    /\ exc' = IF r = "raise" THEN "retrieval" ELSE "none"
    /\ IF Usable(r)
       THEN /\ pc' = "generate" /\ UNCHANGED todo
       ELSE /\ todo' = ErrorFrames /\ pc' = "tail"
    /\ NoWrite
    /\ UNCHANGED <<ep, intent, resp, respNull, pos, gen, full, connected, genFailed>>
    /\ UNCHANGED <<chunkVars, libVars>>

\* methods nl2pandas / nl2sql / nl2mongo: the branch yields an error and
\* returns, raises into the outer except, or leaves a context.
TabOutcomes == {"exit_error", "raise", "context"}
TabGenerated(o) ==
    /\ ep = "tab_sse" /\ pc = "start"
    /\ turns' = turns + 1
    /\ query' = "free"
    /\ exc' = IF o = "raise" THEN "codegen" ELSE "none"
    /\ IF o = "context"
       THEN /\ pc' = "generate" /\ UNCHANGED todo
       ELSE /\ todo' = ErrorFrames /\ pc' = "tail"
    /\ NoWrite
    /\ UNCHANGED <<ep, intent, resp, respNull, pos, gen, full, connected,
                   genFailed, retr, calls>>
    /\ UNCHANGED <<chunkVars, libVars>>

\* The answer: chunk, {message} without a support menu, done.
TabularFrames(t) == <<ChunkFrame(t, FALSE), FinalFrame(t, FALSE, NoMenu), DoneFrame>>

\* model.generate_content(prompt); a failure reaches the outer except.
TabGenerate(g) ==
    /\ ep = "tab_sse" /\ pc = "generate"
    /\ calls' = calls \cup {"generate"}
    /\ genFailed' = (g = ErrText)
    /\ IF g = ErrText
       THEN /\ todo' = ErrorFrames /\ exc' = "generation" /\ UNCHANGED full
       ELSE /\ todo' = TabularFrames(g) /\ full' = g /\ UNCHANGED exc
    /\ pc' = "tail"
    /\ NoWrite
    /\ UNCHANGED <<ep, query, intent, resp, respNull, pos, gen, connected, turns, retr>>
    /\ UNCHANGED <<chunkVars, libVars>>

TabTail == YieldTail("tab_sse")

TabNext ==
    \/ \E r \in RetrievalOutcomes : TabRag(r)
    \/ \E o \in TabOutcomes : TabGenerated(o)
    \/ \E g \in GenOutcomes : TabGenerate(g)
    \/ TabTail

(***************************************************************************)
(* POST /chat/: chat.                                                      *)
(***************************************************************************)
PostStart(k) ==
    /\ ep = "post" /\ pc = "start"
    /\ turns' = turns + 1
    /\ query' = k
    /\ IF lower(k) \in Literals
       THEN /\ sent' = <<FinalFrame(LiteralText(lower(k)), FALSE, LiteralMenu(lower(k)))>>
            /\ pc' = "closed"
       ELSE /\ UNCHANGED sent /\ pc' = "classify"
    /\ UNCHANGED <<ep, intent, resp, respNull, pos, gen, full, todo, connected,
                   observed, lateWrites, exc, genFailed, retr, calls>>
    /\ UNCHANGED <<chunkVars, libVars>>

PostClassify(r) ==
    /\ ep = "post" /\ pc = "classify"
    /\ calls' = calls \cup {"classify"}
    /\ intent' = get_intent(r)
    /\ pc' = "respond"
    /\ NoWrite
    /\ UNCHANGED <<ep, query, resp, respNull, pos, gen, full, todo,
                   connected, turns, exc, genFailed, retr>>
    /\ UNCHANGED <<chunkVars, libVars>>

\* Chatbot.ai_response, refund / ad_booking, and the 200 response.
PostRespondFixed ==
    /\ ep = "post" /\ pc = "respond"
    /\ intent \in {"refund", "ad_booking"}
    /\ resp' = IF intent = "refund" THEN RefundText ELSE AdBookingText
    /\ sent' = <<FinalFrame(resp', FALSE, AiResponseMenu(intent))>>
    /\ pc' = "closed"
    /\ UNCHANGED <<ep, query, intent, respNull, pos, gen, full, todo, connected,
                   observed, lateWrites, turns, exc, genFailed, retr, calls>>
    /\ UNCHANGED <<chunkVars, libVars>>

\* Chatbot.ai_response, rp: Chatbot.rag_response returns None without
\* context and turns any exception into HTTPException(500).
PostRespondRag(r, g) ==
    /\ ep = "post" /\ pc = "respond"
    /\ intent = "rp"
    /\ retr' = r
    /\ calls' = calls \cup {"retrieve"} \cup (IF Usable(r) THEN {"generate"} ELSE {})
    /\ CASE r = "raise" ->
              /\ exc' = "retrieval"
              /\ sent' = <<ErrorFrame>>
              /\ UNCHANGED <<resp, respNull, genFailed>>
         [] Usable(r) ->
              /\ resp' = g /\ respNull' = FALSE /\ genFailed' = (g = ErrText)
              /\ sent' = <<FinalFrame(g, FALSE, AiResponseMenu(intent))>>
              /\ UNCHANGED exc
         [] OTHER ->
              /\ resp' = <<>> /\ respNull' = TRUE
              /\ sent' = <<FinalFrame(<<>>, TRUE, AiResponseMenu(intent))>>
              /\ UNCHANGED <<exc, genFailed>>
    /\ pc' = "closed"
    /\ UNCHANGED <<ep, query, intent, pos, gen, full, todo, connected,
                   observed, lateWrites, turns>>
    /\ UNCHANGED <<chunkVars, libVars>>

PostRespondAgent(g) ==
    /\ ep = "post" /\ pc = "respond"
    /\ intent \in {"customer", "agency", "other"}
    /\ calls' = calls \cup {"generate"}
    /\ resp' = g /\ genFailed' = (g = ErrText)
    /\ sent' = <<FinalFrame(g, FALSE, AiResponseMenu(intent))>>
    /\ pc' = "closed"
    /\ UNCHANGED <<ep, query, intent, respNull, pos, gen, full, todo, connected,
                   observed, lateWrites, turns, exc, retr>>
    /\ UNCHANGED <<chunkVars, libVars>>

PostNext ==
    \/ \E k \in QueryKinds : PostStart(k)
    \/ \E r \in Replies : PostClassify(r)
    \/ PostRespondFixed
    \/ \E r \in RetrievalOutcomes, g \in GenOutcomes : PostRespondRag(r, g)
    \/ \E g \in GenOutcomes : PostRespondAgent(g)

Next ==
    \/ WsNext
    \/ ClientDisconnect
    \/ StructNext
    \/ SseNext
    \/ MmNext
    \/ TabNext
    \/ SseCancel
    \/ PostNext

Spec == Init /\ [][Next]_vars
(***************************************************************************)
(* The chunkers. A text is a sequence of characters: "a" a one-byte letter,*)
(* "U" a two-byte letter, "." a sentence end, " " a space, "N" a newline.  *)
(***************************************************************************)
Alphabet == {"a", "U", ".", " ", "N"}
\* Input texts are built from tokens: a character, "P" a blank line (two
\* newlines), "S" a sentence separator (a period and a space).
Tokens == Alphabet \cup {"P", "S"}
TokenChars(t) ==
    CASE t = "P" -> <<"N", "N">>
      [] t = "S" -> <<".", " ">>
      [] OTHER -> <<t>>
RECURSIVE Expand(_)
Expand(ts) == IF ts = <<>> THEN <<>> ELSE TokenChars(Head(ts)) \o Expand(Tail(ts))
Texts == {Expand(ts) : ts \in SeqsUpTo(Tokens, MaxLen)}

\* len(s.encode('utf-8'))
RECURSIVE ByteLen(_)
ByteLen(s) ==
    IF s = <<>> THEN 0
    ELSE (IF Head(s) = "U" THEN 2 ELSE 1) + ByteLen(Tail(s))

IsSpace(c) == c \in {" ", "N"}

\* str.strip()
RECURSIVE LStrip(_)
LStrip(s) == IF s # <<>> /\ IsSpace(Head(s)) THEN LStrip(Tail(s)) ELSE s
RECURSIVE RStrip(_)
RStrip(s) ==
    IF s # <<>> /\ IsSpace(s[Len(s)]) THEN RStrip(SubSeq(s, 1, Len(s) - 1)) ELSE s
Strip(s) == RStrip(LStrip(s))

\* s[:n], a slice by characters
Take(s, n) == SubSeq(s, 1, Min(n, Len(s)))

\* str.split(sep): i scans the text, start is where the current piece began.
RECURSIVE SplitFrom(_, _, _, _)
SplitFrom(s, sep, i, start) ==
    IF i + Len(sep) - 1 > Len(s) THEN <<SubSeq(s, start, Len(s))>>
    ELSE IF SubSeq(s, i, i + Len(sep) - 1) = sep
         THEN <<SubSeq(s, start, i - 1)>>
              \o SplitFrom(s, sep, i + Len(sep), i + Len(sep))
         ELSE SplitFrom(s, sep, i + 1, start)
Split(s, sep) == SplitFrom(s, sep, 1, 1)

\* The end of the whitespace run that starts at i.
RECURSIVE RunEnd(_, _)
RunEnd(s, i) == IF i < Len(s) /\ IsSpace(s[i + 1]) THEN RunEnd(s, i + 1) ELSE i

\* re.split(r'(?<=[.!?])\s+', s)
RECURSIVE ReSplitFrom(_, _, _)
ReSplitFrom(s, i, start) ==
    IF i > Len(s) THEN <<SubSeq(s, start, Len(s))>>
    ELSE IF i > 1 /\ s[i - 1] = "." /\ IsSpace(s[i])
         THEN <<SubSeq(s, start, i - 1)>>
              \o ReSplitFrom(s, RunEnd(s, i) + 1, RunEnd(s, i) + 1)
         ELSE ReSplitFrom(s, i + 1, start)
ReSplit(s) == ReSplitFrom(s, 1, 1)

ParagraphSep == <<"N", "N">>
SentenceSep == <<".", " ">>

\* The loop state of a chunker: the chunks so far and current_chunk.
Acc(c, u) == [chunks |-> c, cur |-> u]

\* One sentence of the inner loop; join is the text put between sentences.
SentenceStep(st, sentence, max, join) ==
    IF ByteLen(st.cur \o sentence) > max
    THEN IF st.cur # <<>>
         THEN Acc(Append(st.chunks, Strip(st.cur)), sentence)
         ELSE Acc(Append(st.chunks, Take(sentence, max)), st.cur)
    ELSE Acc(st.chunks, IF st.cur # <<>> THEN st.cur \o join \o sentence ELSE sentence)

RECURSIVE SentenceLoop(_, _, _, _)
SentenceLoop(st, sentences, max, join) ==
    IF sentences = <<>> THEN st
    ELSE SentenceLoop(SentenceStep(st, Head(sentences), max, join),
                      Tail(sentences), max, join)

\* One paragraph of the outer loop of JSONLProcessor.chunk_large_text.
JsonlParagraphStep(st, paragraph, max) ==
    IF ByteLen(st.cur \o paragraph) > max
    THEN IF st.cur # <<>>
         THEN Acc(Append(st.chunks, Strip(st.cur)), paragraph)
         ELSE SentenceLoop(st, Split(paragraph, SentenceSep), max, SentenceSep)
    ELSE Acc(st.chunks,
             IF st.cur # <<>> THEN st.cur \o ParagraphSep \o paragraph ELSE paragraph)

RECURSIVE JsonlParagraphLoop(_, _, _)
JsonlParagraphLoop(st, paragraphs, max) ==
    IF paragraphs = <<>> THEN st
    ELSE JsonlParagraphLoop(JsonlParagraphStep(st, Head(paragraphs), max),
                            Tail(paragraphs), max)

\* if current_chunk: chunks.append(current_chunk.strip())
Flush(st) == IF st.cur # <<>> THEN Append(st.chunks, Strip(st.cur)) ELSE st.chunks

\* JSONLProcessor.chunk_large_text(text, max_chunk_size)
chunk_large_text(t, max) ==
    IF ByteLen(t) <= max THEN <<t>>
    ELSE Flush(JsonlParagraphLoop(Acc(<<>>, <<>>), Split(t, ParagraphSep), max))

\* One paragraph of the outer loop of chatbot.rag._chunk_text.
RagParagraphStep(st, paragraph, max) ==
    IF ByteLen(st.cur \o paragraph) > max
    THEN IF st.cur # <<>>
         THEN Acc(Append(st.chunks, Strip(st.cur)), paragraph)
         ELSE SentenceLoop(st, ReSplit(paragraph), max, <<" ">>)
    ELSE Acc(st.chunks,
             IF st.cur # <<>> THEN st.cur \o ParagraphSep \o paragraph ELSE paragraph)

RECURSIVE RagParagraphLoop(_, _, _)
RagParagraphLoop(st, paragraphs, max) ==
    IF paragraphs = <<>> THEN st
    ELSE RagParagraphLoop(RagParagraphStep(st, Head(paragraphs), max),
                          Tail(paragraphs), max)

\* chatbot.rag._chunk_text(text, chunk_size)
chunk_text(t, max) ==
    Flush(RagParagraphLoop(Acc(<<>>, <<>>), Split(t, ParagraphSep), max))

\* chatbot.rag.upsert_texts chunks a text of more than 50000 bytes into
\* chunks of 40000 bytes. The model keeps the ratio of the two: with a
\* chunk size of max bytes, the threshold is max * 50000 / 40000.
UpsertThreshold(max) == (max * 50000) \div 40000

\* The chunks upsert_texts passes on: none for a blank text, the text
\* itself up to the threshold, the chunks of _chunk_text above it.
upsert_texts(t, max) ==
    IF Strip(t) = <<>> THEN <<>>
    ELSE IF ByteLen(t) > UpsertThreshold(max) THEN chunk_text(t, max)
    ELSE <<t>>

TurnIdle ==
    /\ ep = "none" /\ pc = "idle"
    /\ query = "none" /\ intent = "none"
    /\ resp = <<>> /\ respNull = FALSE /\ pos = 0
    /\ gen = <<>> /\ full = <<>> /\ todo = <<>> /\ sent = <<>>
    /\ connected = TRUE /\ observed = FALSE /\ lateWrites = 0
    /\ turns = 0 /\ exc = "none" /\ genFailed = FALSE
    /\ retr = "none" /\ calls = {}

InitChunk ==
    /\ TurnIdle
    /\ LibIdle
    /\ text \in Texts
    /\ maxBytes \in 1..MaxBytes
    /\ chunks = <<>> /\ handed = <<>> /\ cop = "none"

ChunkLargeText ==
    /\ cop = "none"
    /\ cop' = "chunk_large_text"
    /\ chunks' = chunk_large_text(text, maxBytes)
    /\ UNCHANGED <<text, maxBytes, handed>>
    /\ UNCHANGED <<turnVars, libVars>>

ChunkText ==
    /\ cop = "none"
    /\ cop' = "_chunk_text"
    /\ chunks' = chunk_text(text, maxBytes)
    /\ UNCHANGED <<text, maxBytes, handed>>
    /\ UNCHANGED <<turnVars, libVars>>

UpsertTexts ==
    /\ cop = "none"
    /\ cop' = "upsert_texts"
    /\ handed' = upsert_texts(text, maxBytes)
    /\ UNCHANGED <<text, maxBytes, chunks>>
    /\ UNCHANGED <<turnVars, libVars>>

NextChunk == ChunkLargeText \/ ChunkText \/ UpsertTexts

SpecChunk == InitChunk /\ [][NextChunk]_vars

(***************************************************************************)
(* The retrievers: multimodal and tabular query_vector_store, and          *)
(* PineconeVectorStore.query_by_text of the chatbot.                       *)
(***************************************************************************)
\* What a call meets: the query is blank or not, get_vector_store works or
\* raises, the embedding API returns a vector, returns none, or raises, and
\* the index query returns matches, returns none, or raises.
RetrievalEnvs ==
    [blank : BOOLEAN,
     store : {"ok", "error"},
     api : {"vector", "novector", "error"},
     index : {"matches", "nomatch", "error"}]

\* multimodal_chatbot.embeddings.embed_text: ValueError for a blank text,
\* [] when the API call raises or returns an empty embedding.
MmEmbedText(e) ==
    IF e.blank THEN "raise"
    ELSE IF e.api = "vector" THEN "vector" ELSE "empty"

\* tabular_rag.embeddings.embed_text: [] after the last failed attempt.
TabEmbedText(e) == IF e.api = "vector" THEN "vector" ELSE "empty"

\* app.chatbot.embeddings.embed_text as query_by_text meets it: a vector,
\* or, when the API gives none, an exception or an empty list.
ChatbotEmbedOutcomes(e) ==
    IF e.api = "vector" /\ ~e.blank THEN {"vector"} ELSE {"raise", "empty"}

\* The outcome of a retriever call: what embedding the query gave
\* ("notcalled" if it was not reached), the result ("raise" for an
\* exception, else "empty" or "matches") and the index queries issued.
Retrieved(m, r, q) == [embedding |-> m, result |-> r, queries |-> q]

\* store.query / index.query with a vector: the result, or the exception.
IndexQuery(e) ==
    CASE e.index = "error" -> "raise"
      [] e.index = "nomatch" -> "empty"
      [] OTHER -> "matches"

\* multimodal_chatbot.rag.query_vector_store: everything is inside
\* try/except Exception, which returns {"matches": []}.
MmQueryVectorStore(e) ==
    IF e.store = "error" THEN Retrieved("notcalled", "empty", 0)
    ELSE IF MmEmbedText(e) # "vector" THEN Retrieved(MmEmbedText(e), "empty", 0)
    ELSE Retrieved("vector", IF IndexQuery(e) = "raise" THEN "empty" ELSE IndexQuery(e), 1)

\* tabular_rag.rag.query_vector_store: no try/except.
TabQueryVectorStore(e) ==
    IF e.store = "error" THEN Retrieved("notcalled", "raise", 0)
    ELSE IF TabEmbedText(e) # "vector" THEN Retrieved(TabEmbedText(e), "empty", 0)
    ELSE Retrieved("vector", IndexQuery(e), 1)

\* PineconeVectorStore.query_by_text: only ImportError is caught (and raised
\* again as RuntimeError); the embedding is passed to index.query unchecked.
QueryByText(e, m) ==
    IF m = "raise" THEN Retrieved("raise", "raise", 0)
    ELSE Retrieved(m, IndexQuery(e), 1)

InitRetrieve ==
    /\ TurnIdle
    /\ ChunkIdle
    /\ env \in RetrievalEnvs
    /\ op = "none"
    /\ out = <<>>

CallMmQueryVectorStore ==
    /\ op = "none" /\ env \in RetrievalEnvs
    /\ op' = "mm.query_vector_store"
    /\ out' = MmQueryVectorStore(env)
    /\ UNCHANGED <<env, turnVars, chunkVars>>

CallTabQueryVectorStore ==
    /\ op = "none" /\ env \in RetrievalEnvs
    /\ op' = "tab.query_vector_store"
    /\ out' = TabQueryVectorStore(env)
    /\ UNCHANGED <<env, turnVars, chunkVars>>

\* The caller has the store already: get_vector_store is not part of the call.
CallQueryByText(m) ==
    /\ op = "none" /\ env \in RetrievalEnvs
    /\ env.store = "ok"
    /\ m \in ChatbotEmbedOutcomes(env)
    /\ op' = "query_by_text"
    /\ out' = QueryByText(env, m)
    /\ UNCHANGED <<env, turnVars, chunkVars>>

NextRetrieve ==
    \/ CallMmQueryVectorStore
    \/ CallTabQueryVectorStore
    \/ \E m \in {"vector", "raise", "empty"} : CallQueryByText(m)

SpecRetrieve == InitRetrieve /\ [][NextRetrieve]_vars

(***************************************************************************)
(* Vector ids: chatbot.rag.upsert_texts and                                *)
(* JSONLProcessor.process_jsonl_batch. A document is ingested twice; the   *)
(* clock may advance before each ingestion.                                *)
(***************************************************************************)
Contents == {"x", "y"}

\* hashlib.md5(chunk.encode()).hexdigest()[:8]; the contents of the model
\* have distinct digests.
chunk_hash(c) == <<"md5", c>>

\* A text document, as the chunks upsert_texts made of it.
TextDocs == SeqsUpTo(Contents, MaxItems) \ {<<>>}
\* A JSONL document: objects with an "id" field (<<>> when the object has
\* none, <<"k">> for some id, <<"obj", 0>> for the string "obj_0") and a
\* text that is one chunk.
JsonObjects == [id : {<<>>, <<"k">>, <<"obj", 0>>}, text : Contents]
JsonlDocs == SeqsUpTo(JsonObjects, MaxItems) \ {<<>>}

\* upsert_texts: vector_id = f"doc_{chunk_hash}_{int(time.time())}_{i}"
UpsertVectorId(chunk, now, i) == <<"doc", chunk_hash(chunk), now, i>>
UpsertIds(doc, now) == [i \in 1..Len(doc) |-> UpsertVectorId(doc[i], now, i - 1)]

\* process_jsonl_batch: obj_id = json_obj.get("id", f"obj_{index}"),
\* vector_id = f"{obj_id}_chunk_{chunk_index}_{chunk_hash}"
ObjId(obj, index) == IF obj.id = <<>> THEN <<"obj", index>> ELSE obj.id
JsonlVectorId(obj, index, chunk_index) ==
    <<ObjId(obj, index), "chunk", chunk_index, chunk_hash(obj.text)>>
JsonlIds(doc) == [i \in 1..Len(doc) |-> JsonlVectorId(doc[i], i - 1, 0)]

\* The ids of the runs so far and the ids in the index after each run.
Ingested(r, i) == [runs |-> r, index |-> i]

Range(f) == {f[i] : i \in DOMAIN f}

InitIngest ==
    /\ TurnIdle
    /\ ChunkIdle
    /\ \/ \E d \in TextDocs : env = [kind |-> "text", doc |-> d, clock |-> 0]
       \/ \E d \in JsonlDocs : env = [kind |-> "jsonl", doc |-> d, clock |-> 0]
    /\ op = "none"
    /\ out = Ingested(<<>>, {})

\* time.time() moves on between two ingestions.
ClockTick ==
    /\ env # <<>> /\ "clock" \in DOMAIN env
    /\ env.clock < MaxClock
    /\ env' = [env EXCEPT !.clock = @ + 1]
    /\ UNCHANGED <<op, out, turnVars, chunkVars>>

\* One call of upsert_texts on the document; the index upsert overwrites
\* a vector that has the same id.
IngestText ==
    /\ env # <<>> /\ "kind" \in DOMAIN env /\ env.kind = "text"
    /\ Len(out.runs) < 2
    /\ op' = "upsert_texts"
    /\ out' = Ingested(Append(out.runs, UpsertIds(env.doc, env.clock)),
                       out.index \cup Range(UpsertIds(env.doc, env.clock)))
    /\ UNCHANGED <<env, turnVars, chunkVars>>

\* One call of process_jsonl_batch on the document.
IngestJsonl ==
    /\ env # <<>> /\ "kind" \in DOMAIN env /\ env.kind = "jsonl"
    /\ Len(out.runs) < 2
    /\ op' = "process_jsonl_batch"
    /\ out' = Ingested(Append(out.runs, JsonlIds(env.doc)),
                       out.index \cup Range(JsonlIds(env.doc)))
    /\ UNCHANGED <<env, turnVars, chunkVars>>

NextIngest == ClockTick \/ IngestText \/ IngestJsonl

SpecIngest == InitIngest /\ [][NextIngest]_vars

(***************************************************************************)
(* JSONLProcessor.parse_jsonl_file. A line of the file is "valid" (a JSON  *)
(* value), "bad" (json.loads raises JSONDecodeError) or "blank".           *)
(***************************************************************************)
LineKinds == {"valid", "bad", "blank"}
JsonlFiles == [lines : SeqsUpTo(LineKinds, MaxLines), utf8 : BOOLEAN]

\* Each line with its 1-based number in the file.
Numbered(ls) == [i \in 1..Len(ls) |-> [kind |-> ls[i], pos |-> i]]

\* content.strip().split('\n'): blank lines at either end of the file go
\* with the strip; a content that strips to "" splits into one empty line.
RECURSIVE LTrimLines(_)
LTrimLines(ls) ==
    IF ls # <<>> /\ Head(ls).kind = "blank" THEN LTrimLines(Tail(ls)) ELSE ls
RECURSIVE RTrimLines(_)
RTrimLines(ls) ==
    IF ls # <<>> /\ ls[Len(ls)].kind = "blank"
    THEN RTrimLines(SubSeq(ls, 1, Len(ls) - 1)) ELSE ls
StrippedLines(ls) ==
    LET t == RTrimLines(LTrimLines(Numbered(ls)))
    IN IF t = <<>> THEN <<[kind |-> "blank", pos |-> 0]>> ELSE t

\* The result of the call: the HTTP status (200 when it returns), the line
\* number in the detail of the exception (0 if none) and the objects
\* returned, each named by the number of its line in the file.
ParseResult(st, ln, objs) == [status |-> st, line |-> ln, objects |-> objs]

\* The for loop: line_num counts the stripped lines from 1; the first bad
\* line raises HTTPException(400, "Invalid JSON on line {line_num}").
RECURSIVE ParseLoop(_, _, _)
ParseLoop(ls, line_num, json_objects) ==
    IF line_num > Len(ls) THEN ParseResult(200, 0, json_objects)
    ELSE CASE ls[line_num].kind = "blank" -> ParseLoop(ls, line_num + 1, json_objects)
           [] ls[line_num].kind = "valid" ->
                ParseLoop(ls, line_num + 1, Append(json_objects, ls[line_num].pos))
           [] OTHER -> ParseResult(400, line_num, <<>>)

\* parse_jsonl_file: an HTTPException raised inside the try is an Exception,
\* so the last except clause replaces it by HTTPException(500) whose detail
\* quotes the first; only UnicodeDecodeError gives a 400.
parse_jsonl_file(f) ==
    IF ~f.utf8 THEN ParseResult(400, 0, <<>>)
    ELSE LET r == ParseLoop(StrippedLines(f.lines), 1, <<>>)
         IN IF r.status # 200 THEN ParseResult(500, r.line, <<>>)
            ELSE IF r.objects = <<>> THEN ParseResult(500, 0, <<>>)
            ELSE r

InitJsonl ==
    /\ TurnIdle
    /\ ChunkIdle
    /\ env \in JsonlFiles
    /\ op = "none"
    /\ out = <<>>

ParseJsonlFile ==
    /\ op = "none" /\ env \in JsonlFiles
    /\ op' = "parse_jsonl_file"
    /\ out' = parse_jsonl_file(env)
    /\ UNCHANGED <<env, turnVars, chunkVars>>

NextJsonl == ParseJsonlFile

SpecJsonl == InitJsonl /\ [][NextJsonl]_vars

(***************************************************************************)
(* Batch ingestion: JSONLProcessor.process_jsonl_batch of the chatbot and  *)
(* of the structured chatbot, PineconeVectorStore.upsert_texts, and        *)
(* chatbot.rag.upsert_texts on one text.                                   *)
(***************************************************************************)
\* PineconeVectorStore.upsert_texts(..., batch_size: int = 100)
batch_size == 100

\* The "text" field of a JSON object: absent, null or "" ("none"),
\* whitespace only ("blank"), or with characters ("chars").
TextKinds == {"none", "blank", "chars"}

\* A JSON object: its "text" field, whether some other top-level field
\* holds a non-blank string (note), and the number of chunks
\* chunk_large_text makes of its text. It has no "images_base64" field.
BatchObjects == [text : TextKinds, note : BOOLEAN, chunks : {1, batch_size}]
Batches == [batch : SeqsUpTo(BatchObjects, MaxItems) \ {<<>>}]

\* extract_text_content: str(json_obj[field]).strip() of the first truthy
\* field, else the other string values joined; "" or a text ("chars").
extract_text_content(o) ==
    CASE o.text = "blank" -> ""
      [] o.text = "chars" -> "chars"
      [] OTHER -> IF o.note THEN "chars" ELSE ""

\* What the loop over the objects did with each object: "failed" when it
\* added one to failed_stores, "queued" when it appended the chunks to the
\* batch lists, "stored" when it added one to successful_stores, "none"
\* when it touched no counter.
JsonlObjectStep(o) ==
    IF extract_text_content(o) = "" THEN "failed" ELSE "queued"

\* The structured loop: `if text_content:` has no else branch; stored is
\* the result of structured_multimodal_chatbot.rag.upsert_texts.
StructuredObjectStep(o, stored) ==
    IF extract_text_content(o) = "" THEN "none"
    ELSE IF stored THEN "stored" ELSE "failed"

CountOf(report, k) == Cardinality({i \in DOMAIN report : report[i] = k})

\* len(batch_ids): the chunks of the queued objects.
RECURSIVE QueuedChunks(_, _)
QueuedChunks(b, report) ==
    IF b = <<>> THEN 0
    ELSE (IF Head(report) = "queued" THEN Head(b).chunks ELSE 0)
         + QueuedChunks(Tail(b), Tail(report))

\* app.chatbot.embeddings.embed_texts on n texts: the number of vectors
\* returned when the gateway skips `skipped` of them.
ChatbotEmbedTexts(n, skipped) == n - skipped

\* PineconeVectorStore.upsert_texts on n ids: zip stops at the shorter of
\* the ids and the vectors; index.upsert is called for each slice of
\* batch_size vectors and the call numbered failAt raises (0: none does).
StoreUpsertTexts(n, vectors, failAt) ==
    LET m == Min(n, vectors)
        slices == (m + batch_size - 1) \div batch_size
    IN IF failAt \in 1..slices
       THEN [raised |-> TRUE, written |-> (failAt - 1) * batch_size]
       ELSE [raised |-> FALSE, written |-> m]

\* The statistics returned, with the per-object report and the number of
\* vectors the index received.
Stats(r, s, f, t, w) ==
    [report |-> r, successful_stores |-> s, failed_stores |-> f,
     total_chunks |-> t, written |-> w]

\* chatbot JSONLProcessor.process_jsonl_batch; the objects of the model fit
\* in one batch of 50.
process_jsonl_batch(b, skipped, failAt) ==
    LET report == [i \in 1..Len(b) |-> JsonlObjectStep(b[i])]
        n == QueuedChunks(b, report)
        u == StoreUpsertTexts(n, ChatbotEmbedTexts(n, skipped), failAt)
    IN IF n = 0 THEN Stats(report, 0, CountOf(report, "failed"), 0, 0)
       ELSE IF u.raised
       THEN Stats(report, 0, CountOf(report, "failed") + n, n, u.written)
       ELSE Stats(report, n, CountOf(report, "failed"), n, u.written)

\* structured JSONLProcessor.process_jsonl_batch: S is the set of objects
\* whose upsert_texts call returns True, having written one vector.
StructuredProcessJsonlBatch(b, S) ==
    LET report == [i \in 1..Len(b) |-> StructuredObjectStep(b[i], i \in S)]
    IN Stats(report, CountOf(report, "stored"), CountOf(report, "failed"),
             CountOf(report, "stored"), CountOf(report, "stored"))

\* chatbot.rag.upsert_texts(text): False before any store call for an empty
\* or blank text; else one store call per chunk, True if one succeeded.
UpsertOneText(o, failing) ==
    IF o.text # "chars" THEN [result |-> FALSE, written |-> 0]
    ELSE [result |-> ~failing, written |-> IF failing THEN 0 ELSE o.chunks]

InitBatch ==
    /\ TurnIdle
    /\ ChunkIdle
    /\ env \in Batches
    /\ op = "none"
    /\ out = <<>>

ProcessJsonlBatch(skipped, failAt) ==
    /\ op = "none" /\ env \in Batches
    /\ skipped <= QueuedChunks(env.batch, [i \in 1..Len(env.batch) |-> JsonlObjectStep(env.batch[i])])
    /\ op' = "process_jsonl_batch"
    /\ out' = process_jsonl_batch(env.batch, skipped, failAt)
                 @@ [skipped |-> skipped]
    /\ UNCHANGED <<env, turnVars, chunkVars>>

StructuredProcess(S) ==
    /\ op = "none" /\ env \in Batches
    /\ S \subseteq DOMAIN env.batch
    /\ op' = "structured.process_jsonl_batch"
    /\ out' = StructuredProcessJsonlBatch(env.batch, S)
    /\ UNCHANGED <<env, turnVars, chunkVars>>

\* upsert_texts on the text of a one-object document.
UpsertText(failing) ==
    /\ op = "none" /\ env \in Batches
    /\ Len(env.batch) = 1
    /\ op' = "rag.upsert_texts"
    /\ out' = UpsertOneText(env.batch[1], failing)
    /\ UNCHANGED <<env, turnVars, chunkVars>>

NextBatch ==
    \/ \E skipped \in 0..1, failAt \in 0..2 : ProcessJsonlBatch(skipped, failAt)
    \/ \E S \in SUBSET (1..MaxItems) : StructuredProcess(S)
    \/ \E failing \in BOOLEAN : UpsertText(failing)

SpecBatch == InitBatch /\ [][NextBatch]_vars

(***************************************************************************)
(* Metadata maps: JSONLProcessor.create_metadata with the clean-up of      *)
(* process_jsonl_batch, and multimodal_chatbot.rag.upsert_texts. A map is  *)
(* a function from keys to the kind of value held: "str", "int", "obj"     *)
(* (a list or dict, whatever it holds inside) or "null".                   *)
(***************************************************************************)
\* A field of a JSON object: missing, null, a string, or a list/dict.
FieldKinds == {"absent", "null", "str", "obj"}

\* The arguments of a call. For the JSONL path: the object's "id" and
\* "url" fields and its "metadata" field, which is missing, not a dict
\* ("scalar"), or a dict with one key k holding null, a string or a list.
\* For upsert_texts: extra_metadata is None, or a dict with the key
\* page_number holding an int or null.
MetadataCalls ==
    [kind : {"jsonl"}, id : FieldKinds, url : FieldKinds,
     metadata : {"absent", "scalar", "null", "str", "obj"}]
    \cup [kind : {"mm"}, extra_metadata : {"none", "int", "null"}]

\* json_obj.get(field) or ""
GetOrEmpty(v) == IF v \in {"absent", "null"} THEN "str" ELSE v

\* isinstance(value, (str, int, float, bool)) or else str(value)
Basic(v) == IF v = "obj" THEN "str" ELSE v

\* The keys whose value is not None.
DropNull(m) == [k \in {j \in DOMAIN m : m[j] # "null"} |-> m[k]]

\* dict.update
Update(m, e) == e @@ m

\* JSONLProcessor.create_metadata
create_metadata(o) ==
    LET base == [source_type |-> "str", filename |-> "str",
                 chunk_index |-> "int", created_at |-> "int",
                 id |-> GetOrEmpty(o.id), url |-> GetOrEmpty(o.url),
                 title |-> "str", section |-> "str"]
        nested == IF o.metadata \in {"str", "obj"}
                  THEN Update(base, "k" :> Basic(o.metadata)) ELSE base
        sited == IF o.url = "str" THEN Update(nested, "site" :> "str") ELSE nested
    IN DropNull(sited)

\* process_jsonl_batch, lines 275-289: the metadata of one chunk.
JsonlChunkMetadata(o) ==
    LET m == Update(create_metadata(o), [text |-> "str", total_chunks |-> "int"])
        kept == DropNull(m)
    IN [k \in DOMAIN kept |-> Basic(kept[k])]

\* multimodal_chatbot.rag.upsert_texts, lines 95-105.
MmChunkMetadata(extra_metadata) ==
    LET metadata == [filename |-> "str", file_type |-> "str", text |-> "str",
                     source |-> "str", created_at |-> "int",
                     chunk_index |-> "int", total_chunks |-> "int"]
    IN IF extra_metadata # "none"
       THEN Update(metadata, "page_number" :> extra_metadata)
       ELSE metadata

InitMetadata ==
    /\ TurnIdle
    /\ ChunkIdle
    /\ env \in MetadataCalls
    /\ op = "none"
    /\ out = <<>>

BuildJsonlMetadata ==
    /\ op = "none" /\ env \in MetadataCalls /\ env.kind = "jsonl"
    /\ op' = "process_jsonl_batch"
    /\ out' = JsonlChunkMetadata(env)
    /\ UNCHANGED <<env, turnVars, chunkVars>>

BuildMmMetadata ==
    /\ op = "none" /\ env \in MetadataCalls /\ env.kind = "mm"
    /\ op' = "mm.upsert_texts"
    /\ out' = MmChunkMetadata(env.extra_metadata)
    /\ UNCHANGED <<env, turnVars, chunkVars>>

NextMetadata == BuildJsonlMetadata \/ BuildMmMetadata

SpecMetadata == InitMetadata /\ [][NextMetadata]_vars

(***************************************************************************)
(* metadata.text: the preview of a chunk in process_jsonl_batch,           *)
(* chatbot.rag.upsert_texts and tabular_rag.rag.upsert_texts. A chunk of n *)
(* characters is the sequence 1..n; 0 stands for the character ".".        *)
(***************************************************************************)
\* chunk_text[:500]
preview_chars == 500
MaxChunkChars == 504

ChunkOfLen(n) == [i \in 1..n |-> i]

\* chunk[:500] + "..." if len(chunk) > 500 else chunk
MarkedPreview(chunk) ==
    IF Len(chunk) > preview_chars
    THEN Take(chunk, preview_chars) \o <<0, 0, 0>>
    ELSE chunk

\* text[:500]
PlainPreview(t) == Take(t, preview_chars)

InitPreview ==
    /\ TurnIdle
    /\ ChunkIdle
    /\ env \in [chars : 1..MaxChunkChars]
    /\ op = "none"
    /\ out = <<>>

JsonlPreview ==
    /\ op = "none" /\ DOMAIN env = {"chars"}
    /\ op' = "process_jsonl_batch"
    /\ out' = MarkedPreview(ChunkOfLen(env.chars))
    /\ UNCHANGED <<env, turnVars, chunkVars>>

RagPreview ==
    /\ op = "none" /\ DOMAIN env = {"chars"}
    /\ op' = "rag.upsert_texts"
    /\ out' = MarkedPreview(ChunkOfLen(env.chars))
    /\ UNCHANGED <<env, turnVars, chunkVars>>

TabPreview ==
    /\ op = "none" /\ DOMAIN env = {"chars"}
    /\ op' = "tab.upsert_texts"
    /\ out' = PlainPreview(ChunkOfLen(env.chars))
    /\ UNCHANGED <<env, turnVars, chunkVars>>

NextPreview == JsonlPreview \/ RagPreview \/ TabPreview

SpecPreview == InitPreview /\ [][NextPreview]_vars

(***************************************************************************)
(* get_vector_store of chatbot.rag, multimodal_chatbot.rag and             *)
(* tabular_rag.rag. Every caller is a coroutine of the one event loop and  *)
(* get_vector_store awaits nothing, so a call is one step. A client is     *)
(* named by the number of its construction; 0 stands for None.             *)
(***************************************************************************)
MaxCalls == 6

StoreModules == {"chatbot", "mm", "tab"}

\* The module's global _vector_store (chatbot only) and the number of
\* clients constructed so far in the process.
StoreState(m, s, b) == [module |-> m, store |-> s, built |-> b]

\* chatbot.rag.get_vector_store: the global is tested and, when None, set
\* to a new PineconeVectorStore; a constructor that raises leaves it None.
ChatbotGetVectorStore(e, ok) ==
    IF e.store # 0 THEN [env |-> e, handle |-> e.store]
    ELSE IF ok THEN [env |-> StoreState(e.module, e.built + 1, e.built + 1),
                     handle |-> e.built + 1]
    ELSE [env |-> e, handle |-> 0]

\* multimodal_chatbot / tabular_rag get_vector_store: Pinecone(...) and
\* pc.Index(index_name) on every call; no module-level handle is kept.
FreshGetVectorStore(e, ok) ==
    IF ok THEN [env |-> StoreState(e.module, 0, e.built + 1),
                handle |-> e.built + 1]
    ELSE [env |-> e, handle |-> 0]

InitStore ==
    /\ TurnIdle
    /\ ChunkIdle
    /\ \E m \in StoreModules : env = StoreState(m, 0, 0)
    /\ op = "none"
    /\ out = <<>>

\* One call; out collects the handle each call returned (0 if it raised).
GetVectorStore(ok) ==
    /\ env # <<>> /\ "module" \in DOMAIN env /\ env.module = "chatbot"
    /\ Len(out) < MaxCalls
    /\ op' = "get_vector_store"
    /\ env' = ChatbotGetVectorStore(env, ok).env
    /\ out' = Append(out, ChatbotGetVectorStore(env, ok).handle)
    /\ UNCHANGED <<turnVars, chunkVars>>

MmGetVectorStore(ok) ==
    /\ env # <<>> /\ "module" \in DOMAIN env /\ env.module = "mm"
    /\ Len(out) < MaxCalls
    /\ op' = "get_vector_store"
    /\ env' = FreshGetVectorStore(env, ok).env
    /\ out' = Append(out, FreshGetVectorStore(env, ok).handle)
    /\ UNCHANGED <<turnVars, chunkVars>>

TabGetVectorStore(ok) ==
    /\ env # <<>> /\ "module" \in DOMAIN env /\ env.module = "tab"
    /\ Len(out) < MaxCalls
    /\ op' = "get_vector_store"
    /\ env' = FreshGetVectorStore(env, ok).env
    /\ out' = Append(out, FreshGetVectorStore(env, ok).handle)
    /\ UNCHANGED <<turnVars, chunkVars>>

NextStore ==
    \E ok \in BOOLEAN :
        \/ GetVectorStore(ok)
        \/ MmGetVectorStore(ok)
        \/ TabGetVectorStore(ok)

SpecStore == InitStore /\ [][NextStore]_vars

(***************************************************************************)
(* multimodal_chatbot.rag.upsert_texts with embeddings.embed_texts: which  *)
(* embedding goes with which chunk. The chunks of a document are named by  *)
(* their position in the chunker output, 1..n; the embedding of chunk j    *)
(* is named j.                                                             *)
(***************************************************************************)
MaxDocChunks == 5

\* A document of n chunks and the chunks whose embedding call fails or
\* returns no embedding.
EmbedCalls ==
    UNION {[n : {k}, failing : SUBSET (1..k)] : k \in 1..MaxDocChunks}

\* embed_texts: the loop appends an embedding for each text and goes on to
\* the next text (continue) when the call raises or returns none.
embed_texts(texts, failing) == SelectSeq(texts, LAMBDA t : t \notin failing)

\* upsert_texts, lines 89-106: zip(chunks, embeddings) ends with the
\* shorter list; i counts from 0.
MmVectors(cs, embeddings) ==
    [i \in 1..Min(Len(cs), Len(embeddings)) |->
        [chunk_index |-> i - 1, text |-> cs[i], values |-> embeddings[i]]]

\* upsert_texts: the vectors handed to store.upsert and the result.
MmUpsertTexts(e) ==
    LET cs == [i \in 1..e.n |-> i]
        vectors == MmVectors(cs, embed_texts(cs, e.failing))
    IN [vectors |-> vectors, result |-> vectors # <<>>]

InitEmbed ==
    /\ TurnIdle
    /\ ChunkIdle
    /\ env \in EmbedCalls
    /\ op = "none"
    /\ out = <<>>

CallMmUpsertTexts ==
    /\ op = "none" /\ env \in EmbedCalls
    /\ op' = "mm.upsert_texts"
    /\ out' = MmUpsertTexts(env)
    /\ UNCHANGED <<env, turnVars, chunkVars>>

NextEmbed == CallMmUpsertTexts

SpecEmbed == InitEmbed /\ [][NextEmbed]_vars

(***************************************************************************)
(* The JSONL upload: chatbot.views.upload_jsonl over                       *)
(* JSONLProcessor.process_jsonl_file and parse_jsonl_file.                 *)
(***************************************************************************)
\* An upload: the file name is missing, ends with .jsonl or does not; the
\* content is above 50 MB or not; its lines (none: the content is empty)
\* and whether it decodes as UTF-8.
Uploads ==
    [filename : {"none", "jsonl", "other"}, big : BOOLEAN,
     lines : SeqsUpTo(LineKinds, MaxLines), utf8 : BOOLEAN]

\* The status of the HTTPException as first raised in parse_jsonl_file
\* (200: none raised): 400 for a bad line, for no object, and for a
\* content that is not UTF-8.
ParseDetected(f) ==
    IF ~f.utf8 THEN 400
    ELSE LET r == ParseLoop(StrippedLines(f.lines), 1, <<>>)
         IN IF r.status # 200 \/ r.objects = <<>> THEN 400 ELSE 200

\* process_jsonl_file: `except HTTPException: raise` passes the exception
\* of parse_jsonl_file on as it is; process_jsonl_batch raises nothing.
process_jsonl_file(f) == parse_jsonl_file(f).status

\* The read phase of upload_jsonl: the HTTPException for an empty or an
\* oversized content is raised inside the try and caught by its
\* `except Exception`, which raises HTTPException(400). The result is the
\* status first chosen and the status that leaves the phase.
ReadPhase(u) ==
    CASE u.lines = <<>> -> [detected |-> 400, status |-> 400]
      [] u.big -> [detected |-> 413, status |-> 400]
      [] OTHER -> [detected |-> 200, status |-> 200]

\* upload_jsonl: the status chosen where the error is detected and the
\* status of the response.
upload_jsonl(u) ==
    CASE u.filename = "none" -> [detected |-> 400, status |-> 400]
      [] u.filename = "other" -> [detected |-> 415, status |-> 415]
      [] ReadPhase(u).status # 200 -> ReadPhase(u)
      [] OTHER -> [detected |-> ParseDetected(u), status |-> process_jsonl_file(u)]

InitUpload ==
    /\ TurnIdle
    /\ ChunkIdle
    /\ env \in Uploads
    /\ op = "none"
    /\ out = <<>>

UploadJsonl ==
    /\ op = "none" /\ env \in Uploads
    /\ op' = "upload_jsonl"
    /\ out' = upload_jsonl(env)
    /\ UNCHANGED <<env, turnVars, chunkVars>>

NextUpload == UploadJsonl

SpecUpload == InitUpload /\ [][NextUpload]_vars

(***************************************************************************)
(* SSE /unstructured_chat/unstructured_stream: unstructured_stream's       *)
(* event_stream with app.llm.get_google_response.                          *)
(***************************************************************************)
\* def get_google_response(prompt, model_name=..., temperature=...)
GoogleResponseParams == {"prompt", "model_name", "temperature"}

\* A call of get_google_response with the given argument names, the
\* service answering g: an argument name the function does not have makes
\* the call raise TypeError before the body runs; else the body returns g.
get_google_response(names, g) ==
    IF names \subseteq GoogleResponseParams THEN g ELSE <<"TypeError">>

\* get_google_response(rag_prompt, stream=True)
UnstrGenerate(g) == get_google_response({"prompt", "stream"}, g)

\* for chunk in <str>: the characters of the answer, one per chunk.
Characters(t) == [i \in 1..Len(t) |-> <<t[i]>>]

\* event_stream up to its first yield: query_by_text with answer r, the
\* context test, and the generation call; resp keeps what the generation
\* service answers when it is asked.
UnstrQuery(r, g) ==
    /\ ep = "unstr_sse" /\ pc = "start"
    /\ turns' = turns + 1
    /\ query' = "free"
    /\ retr' = r
    /\ resp' = g
    /\ IF r = "raise"
       THEN /\ todo' = ErrorFrames /\ pc' = "tail"
            /\ exc' = "retrieval"
            /\ calls' = calls \cup {"retrieve"}
            /\ UNCHANGED <<gen, genFailed>>
       ELSE IF ~Usable(r)
       THEN /\ todo' = ErrorFrames /\ pc' = "tail"
            /\ calls' = calls \cup {"retrieve"}
            /\ UNCHANGED <<gen, genFailed, exc>>
       ELSE IF UnstrGenerate(g) = <<"TypeError">>
       THEN /\ todo' = ErrorFrames /\ pc' = "tail"
            /\ exc' = "TypeError"
            /\ calls' = calls \cup {"retrieve"}
            /\ UNCHANGED <<gen, genFailed>>
       ELSE /\ gen' = Characters(UnstrGenerate(g)) /\ pc' = "loop"
            /\ genFailed' = (g = ErrText)
            /\ calls' = calls \cup {"retrieve", "generate"}
            /\ UNCHANGED <<todo, exc>>
    /\ NoWrite
    /\ UNCHANGED <<ep, intent, respNull, pos, full, connected>>
    /\ UNCHANGED <<chunkVars, libVars>>

UnstrTail == YieldTail("unstr_sse")

\* The client disconnects: the generator is closed where it stands.
UnstrCancel ==
    /\ ep = "unstr_sse"
    /\ pc \notin {"closed", "cancelled"}
    /\ connected
    /\ connected' = FALSE
    /\ pc' = "cancelled"
    /\ UNCHANGED <<ep, query, intent, resp, respNull, pos, gen, full, todo, sent,
                   observed, lateWrites, turns, exc, genFailed, retr, calls>>
    /\ UNCHANGED <<chunkVars, libVars>>

InitUnstructured ==
    /\ ep = "unstr_sse" /\ pc = "start"
    /\ query = "none" /\ intent = "none"
    /\ resp = <<>> /\ respNull = FALSE /\ pos = 0
    /\ gen = <<>> /\ full = <<>> /\ todo = <<>> /\ sent = <<>>
    /\ connected = TRUE /\ observed = FALSE /\ lateWrites = 0
    /\ turns = 0 /\ exc = "none" /\ genFailed = FALSE
    /\ retr = "none" /\ calls = {}
    /\ ChunkIdle
    /\ LibIdle

NextUnstructured ==
    \/ \E r \in RetrievalOutcomes, g \in GenOutcomes : UnstrQuery(r, g)
    \/ UnstrTail
    \/ UnstrCancel

SpecUnstructured == InitUnstructured /\ [][NextUnstructured]_vars

(***************************************************************************)
(* Properties of a turn.                                                   *)
(***************************************************************************)
IsChunk(f) == f.kind = "chunk"
IsTerminal(f) == f.kind \in {"final", "error"}
Terminals == SelectSeq(sent, IsTerminal)
ErrorSent == \E i \in 1..Len(sent) : sent[i].kind = "error"
FinalSent == \E i \in 1..Len(sent) : sent[i].kind = "final"

RECURSIVE Payloads(_)
Payloads(fs) == IF fs = <<>> THEN <<>> ELSE <<Head(fs).text>> \o Payloads(Tail(fs))

\* The chunk payloads written before frame i, concatenated in emission order.
ChunksBefore(i) == Concat(Payloads(SelectSeq(SubSeq(sent, 1, i - 1), IsChunk)))

\* The handler has finished the turn without seeing the transport fail.
TurnOver ==
    /\ turns > 0
    /\ ~observed
    /\ \/ pc = "closed"
       \/ ep = "ws" /\ pc = "recv"

\* The turn answers from retrieved passages.
Grounded ==
    \/ ep \in {"post", "sse", "ws"} /\ intent = "rp"
    \/ ep \in {"mm_sse", "tab_sse", "struct_ws"} /\ retr # "none"

C2_ExactlyOneTerminal ==
    /\ Len(Terminals) <= 1
    /\ TurnOver => Len(Terminals) = 1

\* C4 (as claimed): classification returns one of the six intents and never
\* raises; a classifier that fails or cannot be loaded yields "other".
C4_ClassificationTotal ==
    /\ exc # "classify"
    /\ ("classify" \in calls /\ pc # "classify") => intent \in Intents

\* C5 (as claimed): once the handler has met the disconnect, it attempts no
\* further write for the turn.
C5_NoWriteAfterDisconnect == lateWrites = 0

\* C6 (as claimed): a grounded turn whose retrieval has no usable match
\* completes normally: no error envelope, and a final payload whose message
\* is a non-empty string saying that no information was found.
C6_NoMatchCompletes ==
    (/\ ep \in {"post", "sse", "ws", "mm_sse"}
     /\ Grounded /\ retr \in {"empty", "notext"} /\ TurnOver) =>
        /\ ~ErrorSent
        /\ \E i \in 1..Len(sent) :
              /\ sent[i].kind = "final"
              /\ ~sent[i].null
              /\ sent[i].text # <<>>
              /\ \A j \in 1..Len(sent[i].text) : sent[i].text[j] = NoInfoChar

\* C7 (as claimed): a failed embedding or index query is not propagated:
\* the turn ends with a normal final payload on POST, SSE and WebSocket.
C7_RetrievalFailureRecovered ==
    (ep \in {"post", "sse", "ws"} /\ retr = "raise" /\ TurnOver) =>
        ~ErrorSent /\ FinalSent

\* C8 (as claimed): when the generation call fails in a streaming turn, the
\* client gets an error envelope and the failure text is in no chunk and in
\* no final message.
C8_GenerationFailureIsError ==
    (ep \in {"sse", "ws", "mm_sse", "tab_sse"} /\ genFailed) =>
        /\ \A i \in 1..Len(sent) :
              sent[i].kind \in {"chunk", "final"} =>
                  \A j \in 1..Len(sent[i].text) : sent[i].text[j] # ErrChar
        /\ TurnOver => ErrorSent

\* C9 (as claimed): on /chat/ws a turn that ends in an error envelope does
\* not end the serving loop: the handler returns only when the transport
\* is gone.
C9_ErrorKeepsServing ==
    (ep = "ws" /\ pc = "closed") => observed

\* The frame order of a server-push response: chunks, one terminal frame,
\* the done marker last.
SseOrder ==
    /\ \A i, j \in 1..Len(sent) :
          (i < j /\ IsTerminal(sent[i])) => sent[j].kind = "done"
    /\ \A i \in 1..Len(sent) :
          sent[i].kind = "done" =>
              i = Len(sent) /\ i > 1 /\ IsTerminal(sent[i - 1])
    /\ pc = "closed" => (sent # <<>> /\ sent[Len(sent)].kind = "done")

C3_ChunksWithinMaxBytes ==
    /\ \A i \in 1..Len(chunks) : ByteLen(chunks[i]) <= maxBytes
    /\ \A i \in 1..Len(handed) : ByteLen(handed[i]) <= maxBytes

\* C11: on one WebSocket connection a client frame is received only when
\* the turn before it has sent its terminal envelope as its last frame, and
\* a frame is written only inside a turn, so the envelopes of two turns never
\* interleave.
C11_TurnsSequential ==
    [][ep = "ws" =>
          /\ turns' # turns =>
                (turns = 0 \/ (sent # <<>> /\ IsTerminal(sent[Len(sent)])))
          /\ (sent' # sent /\ sent' # <<>>) => (pc # "recv" /\ turns' = turns)]_vars

C11_Witness ==
    /\ ep = "ws" /\ turns = 2 /\ pc = "recv"
    /\ Len(SelectSeq(sent, IsChunk)) >= 1
    /\ FinalSent

\* The non-whitespace characters of a text, in order.
NonSpace(c) == ~IsSpace(c)
Squeeze(s) == SelectSeq(s, NonSpace)

\* No sentence of the text is longer than max bytes, so that the chunker
\* force-truncates nothing; split(_) is the chunker's sentence splitter.
JsonlSentences(p) == Split(p, SentenceSep)
NoLongSentence(t, max, split(_)) ==
    \A i \in 1..Len(Split(t, ParagraphSep)) :
        LET ss == split(Split(t, ParagraphSep)[i])
        IN \A j \in 1..Len(ss) : ByteLen(ss[j]) <= max

\* C12 (as claimed): when no chunk is force-truncated, the chunks
\* concatenated in output order have the non-whitespace characters of the
\* text, sentence-ending punctuation included, each once and in order.
C12_ChunksReconstructText ==
    /\ (cop = "chunk_large_text" /\ NoLongSentence(text, maxBytes, JsonlSentences))
          => Squeeze(Concat(chunks)) = Squeeze(text)
    /\ (cop = "_chunk_text" /\ NoLongSentence(text, maxBytes, ReSplit))
          => Squeeze(Concat(chunks)) = Squeeze(text)

\* The same for _chunk_text alone, whose sentence split keeps the punctuation.
ChunkTextReconstructs ==
    (cop = "_chunk_text" /\ NoLongSentence(text, maxBytes, ReSplit))
        => Squeeze(Concat(chunks)) = Squeeze(text)

\* C13 (as claimed): for every non-empty text, whitespace-only texts and
\* texts longer than max_bytes included, a chunker returns at least one chunk.
C13_NonEmptyInputOneChunk ==
    (cop \in {"chunk_large_text", "_chunk_text"} /\ text # <<>>) => chunks # <<>>

\* The text is one sentence: no blank line and no sentence separator in it.
SingleSentence(t) ==
    /\ Len(Split(t, ParagraphSep)) = 1
    /\ Len(Split(t, SentenceSep)) = 1
    /\ Len(ReSplit(t)) = 1

\* C14 (as claimed): a single sentence of 2 * max_bytes bytes, of one-byte
\* or multi-byte characters, yields exactly one chunk of exactly max_bytes
\* bytes.
C14_DoubleLengthSentence ==
    (/\ cop \in {"chunk_large_text", "_chunk_text"}
     /\ SingleSentence(text)
     /\ ByteLen(text) = 2 * maxBytes)
        => (Len(chunks) = 1 /\ ByteLen(chunks[1]) = maxBytes)

\* The options of the support menus by intent, as the specification's
\* table lists them.
RouteOptions(i) ==
    CASE i \in {"refund", "rp"} -> <<"Rajasthan Patrika", "Refund Policies", "Ad Booking">>
      [] i = "ad_booking" -> <<"Customer", "Agency">>
      [] i = "customer" -> <<"Agency", "Rajasthan Patrika", "Refund Policy">>
      [] i = "agency" -> <<"Customer", "Rajasthan Patrika", "Refund Policy">>
      [] i = "other" -> <<"Customer", "Agency", "Rajasthan Patrika", "Refund Policy">>

\* C15: for each of the six intents the three dispatchers give the same
\* menu, whose options are the non-empty table entry of the intent; and the
\* final payload of every classified turn carries that menu, whatever the
\* query, the retrieval and the generated answer were.
C15_RouteSameMenus ==
    /\ \A i \in Intents :
          /\ AiResponseMenu(i) = StreamAiResponseMenu(i)
          /\ AiResponseMenu(i) = EventStreamMenu(i)
          /\ AiResponseMenu(i).options = RouteOptions(i)
          /\ RouteOptions(i) # <<>>
    /\ (ep \in {"post", "sse", "ws"} /\ intent \in Intents) =>
          \A k \in 1..Len(sent) :
              sent[k].kind = "final" =>
                  (sent[k].menu = AiResponseMenu(intent)
                   /\ sent[k].menu.options = RouteOptions(intent))

C15_Witness ==
    /\ ep = "ws" /\ intent = "agency" /\ FinalSent
    /\ sent[Len(sent)].menu.options = RouteOptions("agency")

\* C16: on POST, SSE and WebSocket a query equal to "ad booking" in any
\* letter case is answered with the fixed ad-booking message and the menu
\* ["Customer", "Agency"], and the turn makes no classification, retrieval
\* or generation call.
C16_AdBookingShortCircuit ==
    (ep \in {"post", "sse", "ws"} /\ query \in {"ad booking", "AD BOOKING"}) =>
        /\ calls = {}
        /\ ~ErrorSent
        /\ \A i \in 1..Len(sent) :
              sent[i].kind = "final" =>
                  /\ sent[i].text = AdBookingText /\ ~sent[i].null
                  /\ sent[i].menu.options = <<"Customer", "Agency">>
        /\ TurnOver => FinalSent

C16_Witness ==
    /\ ep = "sse" /\ query = "AD BOOKING" /\ pc = "closed"
    /\ FinalSent /\ calls = {}

\* C17 (as claimed): a query that is empty after trimming is rejected on
\* POST, SSE and WebSocket before any classification, retrieval or generation
\* call is made for it, and gets no answer.
C17_EmptyQueryRejected ==
    (ep \in {"post", "sse", "ws"} /\ query \in {"blank", "empty"}) =>
        /\ calls = {}
        /\ ~FinalSent

\* The retrievers whose embedding function is in the source tree.
Retrievers == {"mm.query_vector_store", "tab.query_vector_store"}

\* C18 (as claimed): a retriever never raises; when the embedding of the
\* query fails or is empty it returns no match and issues no index query;
\* otherwise it issues exactly one index query.
C18_RetrieverNeverRaises ==
    op \in Retrievers =>
        /\ out.result # "raise"
        /\ out.embedding \in {"raise", "empty"} =>
              (out.result = "empty" /\ out.queries = 0)
        /\ out.embedding = "vector" => out.queries = 1

\* The same for the multimodal retriever alone.
MmRetrieverNeverRaises ==
    op = "mm.query_vector_store" =>
        /\ out.result # "raise"
        /\ out.embedding \in {"raise", "empty"} =>
              (out.result = "empty" /\ out.queries = 0)
        /\ out.embedding = "vector" => out.queries = 1

\* What an id may depend on: the source id, the chunk index and the content
\* of chunk i of the document.
ChunkKey(e, i) ==
    IF e.kind = "text" THEN <<"doc", i - 1, e.doc[i]>>
    ELSE <<ObjId(e.doc[i], i - 1), 0, e.doc[i].text>>

\* C19 (as claimed): the ids of the second ingestion of a document are the
\* ids of the first, so the second adds no id to the index; and two chunks
\* of one ingestion that differ in source id, chunk index or content have
\* different ids.
C19_DeterministicIds ==
    op \in {"upsert_texts", "process_jsonl_batch"} =>
        /\ Len(out.runs) = 2 =>
              (out.runs[2] = out.runs[1] /\ out.index = Range(out.runs[1]))
        /\ \A r \in 1..Len(out.runs) :
              \A i, j \in 1..Len(out.runs[r]) :
                  ChunkKey(env, i) # ChunkKey(env, j) => out.runs[r][i] # out.runs[r][j]

\* The same for process_jsonl_batch alone, whose ids do not use the clock.
JsonlIdsDeterministic ==
    op = "process_jsonl_batch" =>
        /\ Len(out.runs) = 2 =>
              (out.runs[2] = out.runs[1] /\ out.index = Range(out.runs[1]))
        /\ \A r \in 1..Len(out.runs) :
              \A i, j \in 1..Len(out.runs[r]) :
                  ChunkKey(env, i) # ChunkKey(env, j) => out.runs[r][i] # out.runs[r][j]

\* The numbers of the lines of a kind in the uploaded file, in order.
LinesOfKind(ls, k) ==
    LET Is(x) == x.kind = k
    IN SelectSeq(Numbered(ls), Is)

\* The line numbers that the outcome of the call reports as malformed.
ReportedLines == IF out.line = 0 THEN {} ELSE {out.line}

\* C20 (as claimed): in a UTF-8 upload with at least one valid line every
\* valid line is parsed although other lines are malformed, and each
\* malformed line is reported under its 1-based number in the file; an
\* upload without a valid line is rejected.
C20_MalformedLineFailsAlone ==
    (op = "parse_jsonl_file" /\ env.utf8) =>
        /\ LinesOfKind(env.lines, "valid") # <<>> =>
              /\ out.status = 200
              /\ out.objects = [i \in 1..Len(LinesOfKind(env.lines, "valid")) |->
                                  LinesOfKind(env.lines, "valid")[i].pos]
              /\ ReportedLines = {LinesOfKind(env.lines, "bad")[i].pos :
                                     i \in 1..Len(LinesOfKind(env.lines, "bad"))}
        /\ LinesOfKind(env.lines, "valid") = <<>> => out.status # 200

(***************************************************************************)
(* Properties of batch ingestion.                                          *)
(***************************************************************************)
EmptyObjects(b) == {i \in DOMAIN b : extract_text_content(b[i]) = ""}

\* The chunks of the objects that have a text.
RECURSIVE TextChunks(_)
TextChunks(b) ==
    IF b = <<>> THEN 0
    ELSE (IF extract_text_content(Head(b)) = "" THEN 0 ELSE Head(b).chunks)
         + TextChunks(Tail(b))

\* C21: a document whose text is empty or blank puts no vector in the
\* index and is reported as a failure: upsert_texts returns False, and a
\* process_jsonl_batch adds one to failed_stores for that object; it is
\* never passed over without being counted.
C21_EmptyDocumentReported ==
    /\ op \in {"process_jsonl_batch", "structured.process_jsonl_batch"} =>
          /\ \A i \in EmptyObjects(env.batch) : out.report[i] = "failed"
          /\ out.failed_stores >= Cardinality(EmptyObjects(env.batch))
          /\ out.written <= TextChunks(env.batch)
    /\ (op = "rag.upsert_texts" /\ env.batch[1].text # "chars") =>
          (out.result = FALSE /\ out.written = 0)

\* The two functions of the chatbot do report an empty document.
ChatbotEmptyDocumentReported ==
    /\ op = "process_jsonl_batch" =>
          /\ \A i \in EmptyObjects(env.batch) : out.report[i] = "failed"
          /\ out.failed_stores >= Cardinality(EmptyObjects(env.batch))
          /\ out.written <= TextChunks(env.batch)
    /\ (op = "rag.upsert_texts" /\ env.batch[1].text # "chars") =>
          (out.result = FALSE /\ out.written = 0)

(***************************************************************************)
(* Properties of the metadata maps.                                        *)
(***************************************************************************)
NoNull(m) == \A k \in DOMAIN m : m[k] # "null"

JsonlNoNullMetadata ==
    op = "process_jsonl_batch" => NoNull(out)

(***************************************************************************)
(* Properties of the preview.                                              *)
(***************************************************************************)
\* C23: metadata.text has at most 500 characters, the truncation marker
\* counted, and is the whole chunk when the chunk has at most 500.
C23_PreviewAtMost500 ==
    op # "none" =>
        /\ Len(out) <= preview_chars
        /\ env.chars <= preview_chars => out = ChunkOfLen(env.chars)

\* The preview of tabular_rag has no marker and stays within 500.
TabPreviewAtMost500 ==
    op = "tab.upsert_texts" =>
        /\ Len(out) <= preview_chars
        /\ env.chars <= preview_chars => out = ChunkOfLen(env.chars)

\* With the marker, a preview has at most 503 characters.
MarkedPreviewAtMost503 ==
    op # "none" => Len(out) <= preview_chars + 3

(***************************************************************************)
(* Properties of get_vector_store.                                         *)
(***************************************************************************)
\* The handles the calls returned (a call that raised returned none).
Handles == {out[i] : i \in DOMAIN out} \ {0}

\* C24: after any sequence of get_vector_store calls in one process the
\* client has been constructed at most once and every call returned that
\* same handle.
C24_StoreBuiltOnce ==
    op = "get_vector_store" =>
        /\ env.built <= 1
        /\ Cardinality(Handles) <= 1

\* The chatbot module does keep one client.
ChatbotStoreBuiltOnce ==
    (op = "get_vector_store" /\ env.module = "chatbot") =>
        /\ env.built <= 1
        /\ Cardinality(Handles) <= 1

(***************************************************************************)
(* Properties of the vectors of a document.                                *)
(***************************************************************************)
\* A vector holds the embedding of the chunk its metadata describes, at
\* that chunk's position.
Aligned(v) == v.values = v.text /\ v.chunk_index = v.text - 1

\* C25: every vector written is the embedding of exactly the chunk whose
\* preview and chunk_index are in its metadata, and chunk_index is the
\* chunk's position in the chunker output, also when the embedding of
\* another chunk of the batch fails and is skipped.
C25_VectorMatchesChunk ==
    op = "mm.upsert_texts" =>
        \A i \in DOMAIN out.vectors : Aligned(out.vectors[i])

\* When no embedding fails every chunk is written with its own embedding.
AllEmbeddedAligned ==
    (op = "mm.upsert_texts" /\ env.failing = {}) =>
        /\ Len(out.vectors) = env.n
        /\ \A i \in DOMAIN out.vectors : Aligned(out.vectors[i])

(***************************************************************************)
(* Properties of the chunkers: long paragraphs.                            *)
(***************************************************************************)
\* p occurs in c as a run of consecutive characters.
Contains(c, p) ==
    \E i \in 1..(Len(c) - Len(p) + 1) : SubSeq(c, i, i + Len(p) - 1) = p

\* The bytes of the sentences of a paragraph, separators left out.
RECURSIVE SentenceBytes(_)
SentenceBytes(ss) ==
    IF ss = <<>> THEN 0 ELSE ByteLen(Head(ss)) + SentenceBytes(Tail(ss))

\* The paragraphs of the text, stripped, that alone exceed max bytes, also
\* with the sentence separators left out, and have two or more sentences
\* for the chunker's sentence splitter split(_).
LongParagraphs(t, max, split(_)) ==
    {p \in {Strip(q) : q \in Range(Split(t, ParagraphSep))} :
        /\ ByteLen(p) > max
        /\ SentenceBytes(split(p)) > max
        /\ Len(split(p)) >= 2
        /\ \A j \in 1..Len(split(p)) : Strip(split(p)[j]) # <<>>}

\* C26: a paragraph that alone exceeds max_bytes is split at sentence
\* granularity whatever the buffer holds when it is reached: no chunk
\* contains a whole multi-sentence paragraph longer than max_bytes.
C26_LongParagraphSplit ==
    /\ cop = "chunk_large_text" =>
          \A p \in LongParagraphs(text, maxBytes, JsonlSentences) :
              \A i \in DOMAIN chunks : ~Contains(chunks[i], p)
    /\ cop = "_chunk_text" =>
          \A p \in LongParagraphs(text, maxBytes, ReSplit) :
              \A i \in DOMAIN chunks : ~Contains(chunks[i], p)

\* A text of one paragraph meets an empty buffer, and is split.
SingleLongParagraphSplit ==
    /\ (cop = "chunk_large_text" /\ Len(Split(text, ParagraphSep)) = 1) =>
          \A p \in LongParagraphs(text, maxBytes, JsonlSentences) :
              \A i \in DOMAIN chunks : ~Contains(chunks[i], p)
    /\ (cop = "_chunk_text" /\ Len(Split(text, ParagraphSep)) = 1) =>
          \A p \in LongParagraphs(text, maxBytes, ReSplit) :
              \A i \in DOMAIN chunks : ~Contains(chunks[i], p)

(***************************************************************************)
(* Properties of the JSONL upload.                                         *)
(***************************************************************************)
\* C27: the status chosen where a validation error is detected (413 for a
\* file above 50 MB, 400 for an invalid line or no object, 415 for a wrong
\* extension) is the status the caller receives; no enclosing handler
\* rewrites it.
C27_StatusNotRewritten ==
    op = "upload_jsonl" => out.status = out.detected

\* The checks made before the first try block keep their status.
ExtensionStatusKept ==
    (op = "upload_jsonl" /\ env.filename # "jsonl") =>
        /\ out.status = out.detected
        /\ out.status = IF env.filename = "none" THEN 400 ELSE 415

(***************************************************************************)
(* Properties of the batch statistics.                                     *)
(***************************************************************************)
\* C28: after process_jsonl_batch, successful_stores is the number of
\* vectors written to the index by the call and is at most total_chunks,
\* also when a later slice of an upsert fails after an earlier one was
\* written. (No embedding is skipped in the calls considered here.)
C28_StoresAreWrites ==
    (op = "process_jsonl_batch" /\ out.skipped = 0) =>
        /\ out.successful_stores = out.written
        /\ out.successful_stores <= out.total_chunks

\* The counters alone: successful_stores never exceeds total_chunks, and
\* with failed_stores it accounts for every chunk and every empty object.
StoresWithinChunks ==
    op = "process_jsonl_batch" =>
        /\ out.successful_stores <= out.total_chunks
        /\ out.successful_stores + out.failed_stores
              = out.total_chunks + Cardinality(EmptyObjects(env.batch))

\* When every index call succeeds and no embedding is skipped the counter
\* is the number of vectors written.
StoresAreWritesWhenAllSucceed ==
    (op = "process_jsonl_batch" /\ out.skipped = 0 /\ out.failed_stores = Cardinality(EmptyObjects(env.batch))) =>
        out.successful_stores = out.written

(***************************************************************************)
(* Properties of the WebSocket stream frames.                              *)
(***************************************************************************)
\* The positions of the stream frames among the frames of the turn.
StreamFrames == {i \in 1..Len(sent) : IsChunk(sent[i])}

\* C29: in a WebSocket turn that emits stream frames, each stream frame
\* carries at most chunk_size characters, in text order; is_final is true
\* on the stream frame that ends the text and false on every earlier one;
\* the complete frame comes right after the is_final frame; and the turn
\* does not go back to receive_text before that.
C29_StreamFramesThenComplete ==
    ep = "ws" =>
        /\ \A i \in StreamFrames :
              /\ Len(sent[i].text) \in 1..chunk_size
              /\ ChunksBefore(i + 1) = Take(resp, Len(ChunksBefore(i + 1)))
              /\ sent[i].last <=> (ChunksBefore(i + 1) = resp)
              /\ sent[i].last => \A j \in StreamFrames : j <= i
        /\ \A k \in 1..Len(sent) :
              (sent[k].kind = "final" /\ StreamFrames # {}) =>
                  /\ k > 1 /\ k = Len(sent)
                  /\ IsChunk(sent[k - 1]) /\ sent[k - 1].last
        /\ (StreamFrames # {} /\ pc = "recv") =>
              sent[Len(sent)].kind = "final"

C29_Witness ==
    /\ ep = "ws" /\ pc = "recv"
    /\ Cardinality(StreamFrames) = 2
    /\ Len(resp) = chunk_size + 1
    /\ sent[Len(sent)].kind = "final"
    /\ sent[Len(sent) - 1].last /\ ~sent[Len(sent) - 2].last

(***************************************************************************)
(* Properties of the unstructured SSE endpoint.                            *)
(***************************************************************************)
\* C30: on unstructured_stream, when retrieval returns a match with a text
\* field and the generation service is available, the stream delivers the
\* answer as chunk frames, then the {message, supportMessage} frame, then
\* the done marker, and no error frame.
C30_UnstructuredAnswers ==
    (ep = "unstr_sse" /\ retr = "hits" /\ resp \in GenTexts) =>
        /\ ~ErrorSent
        /\ pc = "closed" =>
              /\ FinalSent
              /\ \A i \in 1..Len(sent) :
                    sent[i].kind = "final" => ChunksBefore(i) = resp
              /\ sent[Len(sent)].kind = "done"

\* Every stream of the endpoint that runs to its end ends with the done
\* marker, after one error frame.
UnstructuredAlwaysError ==
    (ep = "unstr_sse" /\ pc = "closed") =>
        /\ Len(sent) = 2
        /\ sent[1].kind = "error" /\ sent[2].kind = "done"

====
